---------------------------- MODULE Spec2Model ----------------------------
(***************************************************************************)
(* A model of the cosmicexcuse package: the bounded leaderboard            *)
(* (leaderboard.py), the severity analyzer (analyzer.py), the quality      *)
(* score and the excuse generator with the process-wide random generator   *)
(* it draws from (generator.py, markov.py, formatter.py).                  *)
(*                                                                         *)
(* Each component has its own specification (SpecBoard and SpecStore,     *)
(* SpecAnalyzer, SpecScore, SpecGen, SpecSession and FairFewCategories,    *)
(* SpecMarkov, SpecLoader), and so have the callers of the generator       *)
(* (SpecExport, SpecCli: cli.py) and the rate limiter (SpecLimiter:        *)
(* utils.py); a specification leaves the variables of the                  *)
(* other components at their idle values.                                  *)
(***************************************************************************)
EXTENDS Integers, Sequences, FiniteSets, TLC

VARIABLES
    \* ---- ExcuseLeaderboard (leaderboard.py) ----
    entries,        \* self.entries: list of LeaderboardEntry
    max_size,       \* self.max_size
    now,            \* the reading time.time() gives the board
    inserted,       \* history: the quality_score of every add_excuse call so far
    storage_path,   \* self.storage_path: whether the board has one
    stored,         \* the file at storage_path
    evicted,        \* history: the entries the last add_excuse or load dropped
    \* ---- SeverityAnalyzer (analyzer.py) ----
    analyzer,       \* the SeverityAnalyzer object: its tables and weights
    error_message,  \* the argument of the calls: None or a str
    severity,       \* what analyze returned, "unset" before its first call
    details,        \* what get_severity_details returned or raised
    \* ---- ExcuseGenerator._calculate_quality_score (generator.py) ----
    excuse_text,    \* the argument excuse_text
    quantum_seed,   \* the argument seed
    quality_score,  \* what the call returned, -1 before the call
    \* ---- ExcuseGenerator (generator.py) and what it shares ----
    rng,            \* the state of the generator of the random module
    clock,          \* the reading time.time() gives the generator
    data,           \* self.data: the corpus load_all built
    markov,         \* self.markov: order, transition table, starters
    frames,         \* per thread: the locals of its generate call
    invocations,    \* history: every _generate_quantum_seed call so far
    returned,       \* history: what every finished generate call gave
    history,        \* self.history of CosmicExcuse
    cleared_at,     \* history: how many calls had finished at the last clear_history
    batches,        \* history: what every finished generate_batch call gave
    \* ---- a MarkovChain of its own (markov.py): markov and rng, and ----
    generated,      \* what the last MarkovChain.generate call was given and gave
    ops,            \* history: the methods called on the chain so far
    \* ---- a DataLoader of its own (data/loader.py) ----
    files,          \* the data directory: what each <category>.json holds
    loaded,         \* what load_all returned, unset before the call
    \* ---- the callers of a CosmicExcuse (generator.py, cli.py) ----
    exported,       \* what the last export_history call was given and gave
    cli,            \* the locals of the generate_excuses call of the CLI
    \* ---- RateLimiter (utils.py) ----
    limiter,        \* the RateLimiter object: max_calls, period, calls
    limiter_clock,  \* the reading time.time() gives the limiter
    allowed         \* history: what every is_allowed call read and returned

boardVars == <<entries, max_size, now, inserted, storage_path, stored, evicted>>
analyzerVars == <<analyzer, error_message, severity, details>>
scoreVars == <<excuse_text, quantum_seed, quality_score>>

genVars == <<rng, clock, data, markov, frames, invocations, returned,
            history, cleared_at, batches>>

markovVars == <<generated, ops>>
loaderVars == <<files, loaded>>
callerVars == <<exported, cli>>
limiterVars == <<limiter, limiter_clock, allowed>>

vars == <<boardVars, analyzerVars, scoreVars, genVars, markovVars, loaderVars,
          callerVars, limiterVars>>

\* What an operation of one component leaves alone: the other components.
notBoard == <<analyzerVars, scoreVars, genVars, markovVars, loaderVars, callerVars,
    limiterVars>>
notAnalyzer == <<boardVars, scoreVars, genVars, markovVars, loaderVars, callerVars,
    limiterVars>>
notScore == <<boardVars, analyzerVars, genVars, markovVars, loaderVars, callerVars,
    limiterVars>>
notGen == <<boardVars, analyzerVars, scoreVars, markovVars, loaderVars, callerVars,
    limiterVars>>
notMarkov == <<boardVars, analyzerVars, scoreVars, loaderVars, callerVars, limiterVars,
              clock, data, frames, invocations, returned,
              history, cleared_at, batches>>
notLoader == <<boardVars, analyzerVars, scoreVars, genVars, markovVars, callerVars,
    limiterVars>>
\* What a caller of the generator leaves alone itself.
notCaller == <<boardVars, analyzerVars, scoreVars, markovVars, loaderVars, limiterVars>>
notLimiter == <<boardVars, analyzerVars, scoreVars, genVars, markovVars, loaderVars,
               callerVars>>

(***************************************************************************)
(* Small helpers                                                           *)
(***************************************************************************)
Min(a, b) == IF a < b THEN a ELSE b
Max(a, b) == IF a > b THEN a ELSE b

(***************************************************************************)
(* ExcuseLeaderboard                                                       *)
(***************************************************************************)
\* Bounds of the leaderboard model.
MaxAdds == 5          \* add_excuse calls in one run
MaxScore == 2         \* quality scores are drawn from 0..MaxScore
MaxCapacity == 3      \* max_size is drawn from 0..MaxCapacity
MaxTime == 1          \* the board's clock reads 0..MaxTime

Scores == 0..MaxScore
Texts == {"excuse a"}

\* LeaderboardEntry(...) as add_excuse builds it, with the defaults of the
\* keyword arguments.
LeaderboardEntry(text, score, ts, metadata) ==
    [excuse_text |-> text, quality_score |-> score, severity |-> "medium",
     category |-> "general", language |-> "en", timestamp |-> ts,
     upvotes |-> 0, downvotes |-> 0, metadata |-> metadata]

\* The metadata the callers of the model pass: the number of their call.
CallMetadata(n) == [call |-> n]

\* list.sort(key=lambda x: x.quality_score, reverse=True): Python's sort is
\* stable, also with reverse=True, so entries of equal score keep their order.
\* InsertDesc puts e behind every element whose score is >= e's.
\* A plausible slip: e goes in front of the elements of its own score.
RECURSIVE InsertDescBeforeEqual(_, _)
InsertDescBeforeEqual(e, s) ==
    IF s = <<>> THEN <<e>>
    ELSE IF Head(s).quality_score > e.quality_score
         THEN <<Head(s)>> \o InsertDescBeforeEqual(e, Tail(s))
         ELSE <<e>> \o s

RECURSIVE InsertDesc(_, _)
InsertDesc(e, s) ==
    IF s = <<>> THEN <<e>>
    ELSE IF Head(s).quality_score >= e.quality_score
         THEN <<Head(s)>> \o InsertDesc(e, Tail(s))
         ELSE <<e>> \o s

RECURSIVE SortByQualityDesc(_)
SortByQualityDesc(s) ==
    IF s = <<>> THEN <<>>
    ELSE InsertDesc(s[Len(s)], SortByQualityDesc(SubSeq(s, 1, Len(s) - 1)))

\* get_top_by_quality(n): sorted(...) is stable as well; [:n] with a
\* negative n leaves out the last -n.
GetTopByQuality(es, n) ==
    LET sorted_entries == SortByQualityDesc(es)
    IN  IF n >= 0 THEN SubSeq(sorted_entries, 1, Min(n, Len(sorted_entries)))
        ELSE SubSeq(sorted_entries, 1, Len(sorted_entries) + n)

\* A plausible slip: evict by age (keep the newest m) instead of by quality.
MaintainMaxSizeOldestFirst(es, m) ==
    IF Len(es) > m THEN SubSeq(es, Len(es) - m + 1, Len(es)) ELSE es

\* "Maintain max size": sort descending by quality and keep the first max_size.
MaintainMaxSize(es, m) ==
    IF Len(es) > m THEN SubSeq(SortByQualityDesc(es), 1, m) ELSE es

\* to_dict(): asdict(self), the fields of the dataclass in their order, each
\* with its value.
EntryFields ==
    << "excuse_text", "quality_score", "severity", "category", "language",
       "timestamp", "upvotes", "downvotes", "metadata" >>
ToDict(entry) == [i \in 1..Len(EntryFields) |-> <<EntryFields[i], entry[EntryFields[i]]>>]

\* LeaderboardEntry(**d): the fields are taken by name from the dict.
FromDict(d) ==
    [f \in {d[i][1] : i \in 1..Len(d)} |->
        d[CHOOSE i \in 1..Len(d) : d[i][1] = f][2]]

\* The file at storage_path: absent, not loadable, or what save() wrote,
\* the entries as dicts and the max_size of the board.
NoFile == [exists |-> FALSE, loadable |-> TRUE, entries |-> <<>>, max_size |-> 0]
BrokenFile == [exists |-> TRUE, loadable |-> FALSE, entries |-> <<>>, max_size |-> 0]
SavedFile(es, m) == [exists |-> TRUE, loadable |-> TRUE, entries |-> es, max_size |-> m]

\* save(): nothing without a storage_path, else the file is rewritten.
Save(path, file, es, m) ==
    IF path THEN SavedFile([i \in 1..Len(es) |-> ToDict(es[i])], m) ELSE file

\* load() on a board holding `current`: nothing without a file, the stored
\* entries cut to the first max_size, no entry when loading fails.
Load(current, file, m) ==
    LET loaded_entries == [i \in 1..Len(file.entries) |-> FromDict(file.entries[i])]
    IN  IF ~file.exists THEN current
        ELSE IF ~file.loadable THEN <<>>
        ELSE IF Len(loaded_entries) > m THEN SubSeq(loaded_entries, 1, m)
        ELSE loaded_entries

\* es without one occurrence of e.
RemoveOne(es, e) ==
    IF \E i \in 1..Len(es) : es[i] = e
    THEN LET i == CHOOSE i \in 1..Len(es) : es[i] = e
         IN  SubSeq(es, 1, i - 1) \o SubSeq(es, i + 1, Len(es))
    ELSE es

\* The entries of `before` that an operation left out of `kept`.
RECURSIVE Dropped(_, _)
Dropped(before, kept) ==
    IF kept = <<>> THEN before
    ELSE Dropped(RemoveOne(before, Head(kept)), Tail(kept))

\* ExcuseLeaderboard(max_size) without storage_path.
BoardInit ==
    /\ entries = <<>>
    /\ max_size \in 0..MaxCapacity
    /\ now = 0
    /\ inserted = <<>>
    /\ storage_path = FALSE
    /\ stored = NoFile
    /\ evicted = <<>>

BoardIdle ==
    /\ entries = <<>>
    /\ max_size = 0
    /\ now = 0
    /\ inserted = <<>>
    /\ storage_path = FALSE
    /\ stored = NoFile
    /\ evicted = <<>>

\* add_excuse(excuse_text, quality_score).  time.time() is read once; the
\* clock may have advanced since the last call.  The board is saved when it
\* has a storage_path.
AddExcuse(text, score) ==
    /\ Len(inserted) < MaxAdds
    /\ \E dt \in 0..1 :
        LET appended == Append(entries,
                LeaderboardEntry(text, score, now + dt, CallMetadata(Len(inserted) + 1)))
            kept == MaintainMaxSize(appended, max_size)
        IN  /\ now + dt <= MaxTime
            /\ now' = now + dt
            /\ entries' = kept
            /\ evicted' = Dropped(appended, kept)
            /\ stored' = Save(storage_path, stored, kept, max_size)
    /\ inserted' = Append(inserted, score)
    /\ UNCHANGED <<max_size, storage_path, notBoard>>

\* ExcuseLeaderboard(max_size=m, storage_path=...) on the file an earlier
\* board left: __init__ starts with no entry and calls load().
Open(m) ==
    /\ storage_path
    /\ max_size' = m
    /\ entries' = Load(<<>>, stored, m)
    /\ evicted' = Dropped(Load(<<>>, stored, Len(stored.entries)), Load(<<>>, stored, m))
    /\ UNCHANGED <<now, inserted, storage_path, stored, notBoard>>

BoardNext ==
    \E text \in Texts, score \in Scores : AddExcuse(text, score)

\* A board with a storage_path, opened on no file or on a file that does
\* not load: it starts with no entry.
StoreInit ==
    /\ storage_path = TRUE
    /\ stored \in {NoFile, BrokenFile}
    /\ max_size \in 0..MaxCapacity
    /\ entries = Load(<<>>, stored, max_size)
    /\ now = 0
    /\ inserted = <<>>
    /\ evicted = <<>>

StoreNext ==
    \/ \E text \in Texts, score \in Scores : AddExcuse(text, score)
    \/ \E m \in 0..MaxCapacity : Open(m)

(***************************************************************************)
(* Python str primitives, on TLA+ strings                                  *)
(***************************************************************************)
UpperLetters ==
    {"A", "B", "C", "D", "E", "F", "G", "H", "I", "J", "K", "L", "M",
     "N", "O", "P", "Q", "R", "S", "T", "U", "V", "W", "X", "Y", "Z"}
LowerLetters ==
    {"a", "b", "c", "d", "e", "f", "g", "h", "i", "j", "k", "l", "m",
     "n", "o", "p", "q", "r", "s", "t", "u", "v", "w", "x", "y", "z"}
Digits == {"0", "1", "2", "3", "4", "5", "6", "7", "8", "9"}
\* The lower-case letter of each upper-case letter.
ToLower ==
    [A |-> "a", B |-> "b", C |-> "c", D |-> "d", E |-> "e", F |-> "f",
     G |-> "g", H |-> "h", I |-> "i", J |-> "j", K |-> "k", L |-> "l",
     M |-> "m", N |-> "n", O |-> "o", P |-> "p", Q |-> "q", R |-> "r",
     S |-> "s", T |-> "t", U |-> "u", V |-> "v", W |-> "w", X |-> "x",
     Y |-> "y", Z |-> "z"]

CharAt(s, i) == SubSeq(s, i, i)
IsUpperChar(c) == c \in UpperLetters
IsLowerChar(c) == c \in LowerLetters
\* \w of the re module (ASCII letters, digits, underscore).
IsWordChar(c) == IsUpperChar(c) \/ IsLowerChar(c) \/ c \in Digits \/ c = "_"
\* The characters str.split() splits on.
IsSpaceChar(c) == c \in {" ", "\t", "\n", "\r", "\f"}

LowerChar(c) == IF IsUpperChar(c) THEN ToLower[c] ELSE c

\* str.lower()
RECURSIVE StrLower(_)
StrLower(s) ==
    IF s = "" THEN ""
    ELSE IF Len(s) = 1 THEN LowerChar(s)
    ELSE LET half == Len(s) \div 2
         IN  StrLower(SubSeq(s, 1, half)) \o StrLower(SubSeq(s, half + 1, Len(s)))

\* sub at position i of s
StartsAt(s, i, sub) == i >= 1 /\ i + Len(sub) - 1 <= Len(s) /\ SubSeq(s, i, i + Len(sub) - 1) = sub

\* `sub in s`
StrContains(s, sub) ==
    LET n == Len(sub)
    IN  \E i \in 1..(Len(s) - n + 1) : SubSeq(s, i, i + n - 1) = sub

\* str.count(c) for a single character c
StrCount(s, c) == Cardinality({i \in 1..Len(s) : CharAt(s, i) = c})

\* str.isupper(): at least one cased character and no lowercase one.
StrIsUpper(w) ==
    /\ \E i \in 1..Len(w) : IsUpperChar(CharAt(w, i))
    /\ \A i \in 1..Len(w) : ~IsLowerChar(CharAt(w, i))

\* str.split(): the maximal runs of non-whitespace characters, in order.
RECURSIVE SplitFrom(_, _, _, _)
SplitFrom(s, i, cur, acc) ==
    IF i > Len(s) THEN (IF cur = "" THEN acc ELSE Append(acc, cur))
    ELSE IF IsSpaceChar(CharAt(s, i))
         THEN SplitFrom(s, i + 1, "", IF cur = "" THEN acc ELSE Append(acc, cur))
         ELSE SplitFrom(s, i + 1, cur \o CharAt(s, i), acc)

StrSplit(s) == SplitFrom(s, 1, "", <<>>)

RECURSIVE SumSeq(_)
SumSeq(s) == IF s = <<>> THEN 0 ELSE Head(s) + SumSeq(Tail(s))

(***************************************************************************)
(* SeverityAnalyzer                                                        *)
(***************************************************************************)
\* self.severity_keywords, in dict order.
SeverityKeywords ==
    <<
      [sev |-> "severe", kws |-> <<
          "fatal", "critical", "crash", "panic", "doom", "catastrophic",
          "emergency", "disaster", "meltdown", "apocalypse", "dead",
          "explosion", "fire", "burning", "destroyed", "corrupted",
          "segmentation", "core dump", "kernel panic">>],
      [sev |-> "medium", kws |-> <<
          "error", "fail", "failed", "exception", "problem", "issue", "broken",
          "invalid", "denied", "refused", "timeout", "overflow", "leak",
          "violation", "conflict", "missing", "undefined", "null pointer",
          "not found">>],
      [sev |-> "mild", kws |-> <<
          "warning", "warn", "deprecated", "notice", "info", "debug", "trace",
          "minor", "slight", "temporary", "recoverable", "retry", "pending",
          "delayed", "obsolete", "legacy">>]
    >>

\* self.severity_patterns, in dict order. A regular expression of the table
\* is kept as its source text (src) and its structure: an optional leading
\* \b (lb), one or two literals joined by .* (parts), an optional literal
\* group "(...)?" behind the last literal (opt) and an optional trailing \b
\* (rb). The literals are written in lower case: the patterns are searched
\* with re.IGNORECASE, that is against the lower-cased message. "!!!+" finds
\* what "!!!" finds.
SeverityPatterns ==
    <<
      [sev |-> "severe", pats |-> <<
          [src |-> "FATAL", lb |-> FALSE, parts |-> <<"fatal">>, opt |-> "", rb |-> FALSE],
          [src |-> "CRITICAL", lb |-> FALSE, parts |-> <<"critical">>, opt |-> "", rb |-> FALSE],
          [src |-> "PANIC", lb |-> FALSE, parts |-> <<"panic">>, opt |-> "", rb |-> FALSE],
          [src |-> "EMERGENCY", lb |-> FALSE, parts |-> <<"emergency">>, opt |-> "", rb |-> FALSE],
          [src |-> "!!!+", lb |-> FALSE, parts |-> <<"!!!">>, opt |-> "", rb |-> FALSE],
          [src |-> "SYSTEM.*DOWN", lb |-> FALSE, parts |-> <<"system", "down">>, opt |-> "", rb |-> FALSE],
          [src |-> "KERNEL.*PANIC", lb |-> FALSE, parts |-> <<"kernel", "panic">>, opt |-> "", rb |-> FALSE],
          [src |-> "SEGMENTATION.*FAULT", lb |-> FALSE, parts |-> <<"segmentation", "fault">>, opt |-> "", rb |-> FALSE],
          [src |-> "CORE.*DUMP", lb |-> FALSE, parts |-> <<"core", "dump">>, opt |-> "", rb |-> FALSE]>>],
      [sev |-> "medium", pats |-> <<
          [src |-> "\\bERROR\\b", lb |-> TRUE, parts |-> <<"error">>, opt |-> "", rb |-> TRUE],
          [src |-> "EXCEPTION", lb |-> FALSE, parts |-> <<"exception">>, opt |-> "", rb |-> FALSE],
          [src |-> "FAILED", lb |-> FALSE, parts |-> <<"failed">>, opt |-> "", rb |-> FALSE],
          [src |-> "!!", lb |-> FALSE, parts |-> <<"!!">>, opt |-> "", rb |-> FALSE],
          [src |-> "\\bFAIL\\b", lb |-> TRUE, parts |-> <<"fail">>, opt |-> "", rb |-> TRUE],
          [src |-> "NULL.*POINTER", lb |-> FALSE, parts |-> <<"null", "pointer">>, opt |-> "", rb |-> FALSE],
          [src |-> "STACK.*OVERFLOW", lb |-> FALSE, parts |-> <<"stack", "overflow">>, opt |-> "", rb |-> FALSE],
          [src |-> "MEMORY.*LEAK", lb |-> FALSE, parts |-> <<"memory", "leak">>, opt |-> "", rb |-> FALSE]>>],
      [sev |-> "mild", pats |-> <<
          [src |-> "\\bWARN(ING)?\\b", lb |-> TRUE, parts |-> <<"warn">>, opt |-> "ing", rb |-> TRUE],
          [src |-> "\\bINFO\\b", lb |-> TRUE, parts |-> <<"info">>, opt |-> "", rb |-> TRUE],
          [src |-> "DEBUG", lb |-> FALSE, parts |-> <<"debug">>, opt |-> "", rb |-> FALSE],
          [src |-> "NOTICE", lb |-> FALSE, parts |-> <<"notice">>, opt |-> "", rb |-> FALSE],
          [src |-> "DEPRECATED", lb |-> FALSE, parts |-> <<"deprecated">>, opt |-> "", rb |-> FALSE],
          [src |-> "TRACE", lb |-> FALSE, parts |-> <<"trace">>, opt |-> "", rb |-> FALSE],
          [src |-> "\\bretry", lb |-> TRUE, parts |-> <<"retry">>, opt |-> "", rb |-> FALSE],
          [src |-> "pending", lb |-> FALSE, parts |-> <<"pending">>, opt |-> "", rb |-> FALSE]>>]
    >>

\* The analyzer object as SeverityAnalyzer.__init__ leaves it.
NewSeverityAnalyzer ==
    [severity_keywords |-> SeverityKeywords,
     severity_patterns |-> SeverityPatterns,
     pattern_weights |-> [severe |-> 5, medium |-> 3, mild |-> 1],
     keyword_weights |-> [severe |-> 3, medium |-> 2, mild |-> 1],
     uppercase_exclusions |-> {"CPU", "RAM", "API", "URL", "ID"}]

\* \b at the gap before position p of the (lower-cased) message s.
WordBoundary(s, p) ==
    LET before == p - 1 >= 1 /\ p - 1 <= Len(s) /\ IsWordChar(CharAt(s, p - 1))
        after  == p >= 1 /\ p <= Len(s) /\ IsWordChar(CharAt(s, p))
    IN  before # after

\* The positions behind a match of the literals of pat that starts at i:
\* "." does not match a newline, so the text between two literals holds none.
MatchEnds(pat, s, i) ==
    LET p1 == pat.parts[1]
        e1 == i + Len(p1)
        core ==
            IF ~StartsAt(s, i, p1) THEN {}
            ELSE IF Len(pat.parts) = 1 THEN {e1}
            ELSE {j + Len(pat.parts[2]) : j \in
                    {k \in e1..(Len(s) + 1) :
                        /\ StartsAt(s, k, pat.parts[2])
                        /\ \A g \in e1..(k - 1) : CharAt(s, g) # "\n"}}
    IN  core \cup (IF pat.opt = "" THEN {}
                   ELSE {e + Len(pat.opt) : e \in {x \in core : StartsAt(s, x, pat.opt)}})

\* re.search(pat, message, re.IGNORECASE) finds a match; s is the message
\* in lower case.
ReSearch(pat, s) ==
    \E i \in 1..Len(s) :
        /\ pat.lb => WordBoundary(s, i)
        /\ \E e \in MatchEnds(pat, s, i) : pat.rb => WordBoundary(s, e)

\* [(sev, x) for sev, xs in table.items() for x in xs], table given as the
\* sequence of its items and field naming the list in an item.
RECURSIVE FlattenPatterns(_)
FlattenPatterns(items) ==
    IF items = <<>> THEN <<>>
    ELSE [i \in 1..Len(Head(items).pats) |->
            [sev |-> Head(items).sev, pat |-> Head(items).pats[i]]]
         \o FlattenPatterns(Tail(items))

RECURSIVE FlattenKeywords(_)
FlattenKeywords(items) ==
    IF items = <<>> THEN <<>>
    ELSE [i \in 1..Len(Head(items).kws) |->
            [sev |-> Head(items).sev, kw |-> Head(items).kws[i]]]
         \o FlattenKeywords(Tail(items))

\* _pick_top_severity: the first level of the highest rank, None when there
\* is no level.
TierOrder == [mild |-> 0, medium |-> 1, severe |-> 2]

RECURSIVE PickTopFrom(_, _, _)
PickTopFrom(levels, top, top_sev) ==
    IF levels = <<>> THEN top_sev
    ELSE LET sev == Head(levels)
             val == IF sev \in DOMAIN TierOrder THEN TierOrder[sev] ELSE -1
         IN  IF val > top THEN PickTopFrom(Tail(levels), val, sev)
             ELSE PickTopFrom(Tail(levels), top, top_sev)

PickTopSeverity(levels) == PickTopFrom(levels, -1, "None")

\* _score_patterns: (score, top)
ScorePatterns(an, message) ==
    LET folded == StrLower(message)
        Hit(h) == ReSearch(h.pat, folded)
        hits == SelectSeq(FlattenPatterns(an.severity_patterns), Hit)
    IN  [score |-> SumSeq([i \in 1..Len(hits) |-> an.pattern_weights[hits[i].sev]]),
         top |-> PickTopSeverity([i \in 1..Len(hits) |-> hits[i].sev])]

\* _score_keywords
ScoreKeywords(an, msg_lower) ==
    LET Hit(h) == StrContains(msg_lower, h.kw)
        hits == SelectSeq(FlattenKeywords(an.severity_keywords), Hit)
    IN  SumSeq([i \in 1..Len(hits) |-> an.keyword_weights[hits[i].sev]])

\* _score_exclamations
ScoreExclamations(message) ==
    LET n == StrCount(message, "!")
    IN  IF n >= 3 THEN 3 ELSE IF n = 2 THEN 2 ELSE IF n = 1 THEN 1 ELSE 0

\* _score_uppercase returns 0.5 for each shouted word; the model counts the
\* words, that is twice the score.
ScoreUppercaseTwice(an, message) ==
    LET words == StrSplit(message)
        Shouted(w) == StrIsUpper(w) /\ Len(w) > 2 /\ w \notin an.uppercase_exclusions
    IN  Len(SelectSeq(words, Shouted))

\* _score_to_severity, on twice the score (score >= 8, score >= 4).
ScoreToSeverityTwice(twice) ==
    IF twice >= 2 * 8 THEN "severe"
    ELSE IF twice >= 2 * 4 THEN "medium"
    ELSE "mild"

\* An argument is None or a str: [none |-> TRUE, s |-> ""] is None.
None == [none |-> TRUE, s |-> ""]
Str(s) == [none |-> FALSE, s |-> s]
\* Python's truth value of the argument: None and "" are false.
Truthy(arg) == ~arg.none /\ arg.s # ""

\* A plausible slip: the severe short-circuit is missing, every message is
\* classified by its total score.
AnalyzeBodyNoSevereShortCircuit(an, arg) ==
    IF arg.none THEN "AttributeError"
    ELSE
    LET message == arg.s
        ps == ScorePatterns(an, message)
    IN  IF ps.top = "mild" /\ ps.score <= 2 THEN "mild"
        ELSE ScoreToSeverityTwice(
                2 * (ps.score + ScoreKeywords(an, StrLower(message))
                     + ScoreExclamations(message))
                + ScoreUppercaseTwice(an, message))

\* A plausible slip: the mild short-circuit is missing.
AnalyzeBodyNoMildShortCircuit(an, arg) ==
    IF arg.none THEN "AttributeError"
    ELSE
    LET message == arg.s
        ps == ScorePatterns(an, message)
    IN  IF ps.top = "severe" /\ ps.score >= 5 THEN "severe"
        ELSE ScoreToSeverityTwice(
                2 * (ps.score + ScoreKeywords(an, StrLower(message))
                     + ScoreExclamations(message))
                + ScoreUppercaseTwice(an, message))

\* The body of analyze behind the guard for an empty message. The result is
\* a tier, or "AttributeError" where the code calls .lower() on None.
AnalyzeBody(an, arg) ==
    IF arg.none THEN "AttributeError"
    ELSE
    LET message == arg.s
        msg_lower == StrLower(message)
        ps == ScorePatterns(an, message)
    IN  IF ps.top = "severe" /\ ps.score >= 5 THEN "severe"
        ELSE IF ps.top = "mild" /\ ps.score <= 2 THEN "mild"
        ELSE ScoreToSeverityTwice(
                2 * (ps.score + ScoreKeywords(an, msg_lower) + ScoreExclamations(message))
                + ScoreUppercaseTwice(an, message))

\* A plausible slip: the guard for an empty message is missing.
AnalyzeNoGuard(an, arg) == AnalyzeBody(an, arg)

\* A plausible slip: the guard is inverted (if error_message: return "mild").
AnalyzeInvertedGuard(an, arg) ==
    IF Truthy(arg) THEN "mild" ELSE AnalyzeBody(an, arg)

\* analyze(error_message)
Analyze(an, arg) ==
    IF ~Truthy(arg) THEN "mild" ELSE AnalyzeBody(an, arg)

\* _find_keywords / _find_patterns
FindKeywords(an, msg_lower) ==
    LET Hit(h) == StrContains(msg_lower, h.kw)
        hits == SelectSeq(FlattenKeywords(an.severity_keywords), Hit)
    IN  [i \in 1..Len(hits) |-> hits[i].kw]

FindPatterns(an, message) ==
    LET folded == StrLower(message)
        Hit(h) == ReSearch(h.pat, folded)
        hits == SelectSeq(FlattenPatterns(an.severity_patterns), Hit)
    IN  [i \in 1..Len(hits) |-> hits[i].pat.src]

\* What a get_severity_details call gives: the dict it returns, or the
\* exception it raises. uppercase_ratio is kept as <<numerator, denominator>>.
Details(status, sev, kws, pats, bangs, ratio, length) ==
    [status |-> status, severity |-> sev, found_keywords |-> kws,
     found_patterns |-> pats, exclamation_count |-> bangs,
     uppercase_ratio |-> ratio, message_length |-> length]

NoDetails == Details("unset", "unset", <<>>, <<>>, 0, <<0, 1>>, 0)

\* get_severity_details(error_message): analyze first, then error_message.lower(),
\* which None does not have.
GetSeverityDetails(an, arg) ==
    LET sev == Analyze(an, arg)
    IN  IF sev = "AttributeError" \/ arg.none
        THEN Details("AttributeError", "unset", <<>>, <<>>, 0, <<0, 1>>, 0)
        ELSE LET message == arg.s
                 uppers == Cardinality({i \in 1..Len(message) : IsUpperChar(CharAt(message, i))})
             IN  Details("returned", sev,
                         FindKeywords(an, StrLower(message)),
                         FindPatterns(an, message),
                         StrCount(message, "!"),
                         <<uppers, Max(Len(message), 1)>>,
                         Len(message))

\* Bound of the analyzer model: a message is made of at most MaxTokens tokens.
MaxTokens == 3

\* The pieces messages are made of: a severe pattern that is also a keyword,
\* a severe keyword that is no pattern (with an exclamation mark), a lone
\* exclamation mark, whitespace, a mild and a medium pattern, and a severe
\* pattern that is no keyword.
Tokens == {"FATAL", "fire!", "!", " ", "\t", "warning", "ERROR", "coredump"}

RECURSIVE MessagesUpTo(_)
MessagesUpTo(n) ==
    IF n = 0 THEN {""}
    ELSE LET shorter == MessagesUpTo(n - 1)
         IN  shorter \cup {m \o t : m \in shorter, t \in Tokens}

\* The arguments analyze and get_severity_details are called with.
\* Messages of their own: medium patterns with and without a keyword, a
\* mild pattern next to severe keywords.
LogMessages ==
    { "nullpointer", "Null-pointer dereference in parser", "Null pointer detected",
      "nullpointer warning", "warning: disk destroyed, data corrupted" }

Arguments == {None} \cup {Str(m) : m \in MessagesUpTo(MaxTokens) \cup LogMessages}

AnalyzerInit ==
    /\ analyzer = NewSeverityAnalyzer
    /\ error_message \in Arguments
    /\ severity = "unset"
    /\ details = NoDetails

AnalyzerIdle ==
    /\ analyzer = NewSeverityAnalyzer
    /\ error_message = None
    /\ severity = "unset"
    /\ details = NoDetails

\* severity = analyzer.analyze(error_message)
AnalyzeCall ==
    /\ severity' = Analyze(analyzer, error_message)
    /\ UNCHANGED <<analyzer, error_message, details, notAnalyzer>>

\* details = analyzer.get_severity_details(error_message)
GetSeverityDetailsCall ==
    /\ details' = GetSeverityDetails(analyzer, error_message)
    /\ UNCHANGED <<analyzer, error_message, severity, notAnalyzer>>

AnalyzerNext == AnalyzeCall \/ GetSeverityDetailsCall

(***************************************************************************)
(* ExcuseGenerator._calculate_quality_score                                *)
(***************************************************************************)
BonusWords == <<"quantum", "cosmic", "AI", "blockchain", "neural">>

\* for word in bonus_words: if word.lower() in excuse_text.lower():
\*     score = min(100, score + 5)
RECURSIVE AddBonuses(_, _, _)
AddBonuses(words, text_lower, sc) ==
    IF words = <<>> THEN sc
    ELSE AddBonuses(Tail(words), text_lower,
                    IF StrContains(text_lower, StrLower(Head(words)))
                    THEN Min(100, sc + 5) ELSE sc)

\* A plausible slip: the final clamp is missing.
CalculateQualityScoreNoClamp(text, sd) ==
    AddBonuses(BonusWords, StrLower(text), (Len(text) * sd) % 100)

\* _calculate_quality_score(excuse_text, seed): * and % bind alike and group
\* from the left, so the base is (len(excuse_text) * seed) % 100.
CalculateQualityScore(text, sd) ==
    Max(1, Min(100, AddBonuses(BonusWords, StrLower(text), (Len(text) * sd) % 100)))

\* Bounds of the score model: texts of at most MaxWords pieces, seeds
\* 0..MaxSeed (the score reads the seed modulo 100 only).
MaxWords == 2
MaxSeed == 99

\* The pieces texts are made of: bonus words alone and together, a word
\* that holds "ai" without being one, and words without a bonus.
TextPieces == {"quantum ", "AI ", "rain ", "bug ", "cosmic blockchain neural "}

RECURSIVE TextsUpTo(_)
TextsUpTo(n) ==
    IF n = 0 THEN {""}
    ELSE LET shorter == TextsUpTo(n - 1)
         IN  shorter \cup {x \o piece : x \in shorter, piece \in TextPieces}

ScoreInit ==
    /\ excuse_text \in TextsUpTo(MaxWords)
    /\ quantum_seed \in 0..MaxSeed
    /\ quality_score = -1

ScoreIdle ==
    /\ excuse_text = ""
    /\ quantum_seed = 0
    /\ quality_score = -1

\* score = self._calculate_quality_score(excuse_text, seed)
CalculateQualityScoreCall ==
    /\ quality_score' = CalculateQualityScore(excuse_text, quantum_seed)
    /\ UNCHANGED <<excuse_text, quantum_seed, notScore>>

ScoreNext == CalculateQualityScoreCall

(***************************************************************************)
(* The random module: one generator shared by every caller of the process  *)
(***************************************************************************)
\* The Mersenne Twister behind random.seed, random.choice and random.random
\* is held as an 8-bit linear congruential generator.  What the generator
\* relies on is kept: seed(n) sets the state as a function of n alone, a
\* draw is a function of the state and advances it.
RngModulus == 256
RngMultiplier == 25173
RngIncrement == 13849

\* The states the generator can have when the process starts (it is seeded
\* from the operating system).
EntropyStates == {0, 183}

\* A 32-bit value as two 16-bit limbs, value hi * 65536 + lo.
Limbs(hi, lo) == [hi |-> hi, lo |-> lo]

\* n % m of a value held in limbs.
LimbsMod(n, m) == ((n.hi % m) * (65536 % m) + (n.lo % m)) % m

\* random.seed(n)
RandomSeed(n) == (n.hi + 31 * n.lo) % RngModulus

\* One step of the generator.
RngStep(state) == (state * RngMultiplier + RngIncrement) % RngModulus

\* random.choice(seq) on a non-empty seq: the element drawn from state.
RandomChoice(state, seq) == seq[((RngStep(state) * Len(seq)) \div RngModulus) + 1]

\* random.random(): the numerator of the float drawn, over RngModulus.
RandomRandom(state) == RngStep(state)

(***************************************************************************)
(* ExcuseGenerator._generate_quantum_seed                                  *)
(***************************************************************************)
\* The wall clock reads a tenth of a second at a time from a fixed epoch:
\* f"{time.time()}" is the shortest repr of the float.
EpochSeconds == "1762300800"
FormatTime(t) == EpochSeconds \o "." \o CharAt("0123456789", t + 1)

\* hashlib.md5(hash_input.encode()).hexdigest()[:8] for the hash inputs of
\* the model: the digests MD5 gives them.
Md5Hex8 ==
       "1762300800.0" :> "aad86717"
    @@ "1762300800.1" :> "0b59ebee"
    @@ "1762300800.2" :> "4c7b4767"
    @@ "1762300800.3" :> "70fb5e21"
    @@ "1762300800.4" :> "1c0e356a"
    @@ "1762300800.5" :> "f30decbc"
    @@ "1762300800.6" :> "79e75a4b"
    @@ "1762300800.7" :> "688c3023"
    @@ "1762300800.8" :> "f35212cd"
    @@ "1762300800.9" :> "28ee039c"
    @@ "FATAL ERROR1762300800.0" :> "b9aea4c3"
    @@ "FATAL ERROR1762300800.1" :> "21a1a516"
    @@ "FATAL ERROR1762300800.2" :> "073d7598"
    @@ "FATAL ERROR1762300800.3" :> "ca7bdc5e"
    @@ "FATAL ERROR1762300800.4" :> "131b71ee"
    @@ "FATAL ERROR1762300800.5" :> "a5e1cfb9"
    @@ "FATAL ERROR1762300800.6" :> "8b6dc6bf"
    @@ "FATAL ERROR1762300800.7" :> "68c0dd2c"
    @@ "FATAL ERROR1762300800.8" :> "826e9bab"
    @@ "FATAL ERROR1762300800.9" :> "24eb19f1"
    @@ "FATAL ERROR: Everything is broken!1762300800.0" :> "0f1c9307"
    @@ "FATAL ERROR: Everything is broken!1762300800.1" :> "c87edb42"
    @@ "FATAL ERROR: Everything is broken!1762300800.2" :> "6244a8a8"
    @@ "FATAL ERROR: Everything is broken!1762300800.3" :> "65fc2f9a"
    @@ "FATAL ERROR: Everything is broken!1762300800.4" :> "5331f29b"
    @@ "FATAL ERROR: Everything is broken!1762300800.5" :> "8b2fb6eb"
    @@ "FATAL ERROR: Everything is broken!1762300800.6" :> "8d670d38"
    @@ "FATAL ERROR: Everything is broken!1762300800.7" :> "71f22d20"
    @@ "FATAL ERROR: Everything is broken!1762300800.8" :> "05f287ee"
    @@ "FATAL ERROR: Everything is broken!1762300800.9" :> "00a88835"
    @@ "SegmentationFault: Core dumped1762300800.0" :> "7f185566"
    @@ "SegmentationFault: Core dumped1762300800.1" :> "a39ea17d"
    @@ "SegmentationFault: Core dumped1762300800.2" :> "6168fe65"
    @@ "SegmentationFault: Core dumped1762300800.3" :> "284b59fd"
    @@ "SegmentationFault: Core dumped1762300800.4" :> "c4686e3a"
    @@ "SegmentationFault: Core dumped1762300800.5" :> "3846a530"
    @@ "SegmentationFault: Core dumped1762300800.6" :> "3285ed29"
    @@ "SegmentationFault: Core dumped1762300800.7" :> "68e2d0ca"
    @@ "SegmentationFault: Core dumped1762300800.8" :> "30a3c457"
    @@ "SegmentationFault: Core dumped1762300800.9" :> "be373a13"
    @@ "NullPointerException at line infinity1762300800.0" :> "bfd1d7c0"
    @@ "NullPointerException at line infinity1762300800.1" :> "d500745c"
    @@ "NullPointerException at line infinity1762300800.2" :> "46a8f42b"
    @@ "NullPointerException at line infinity1762300800.3" :> "2f5aa65d"
    @@ "NullPointerException at line infinity1762300800.4" :> "1252aa91"
    @@ "NullPointerException at line infinity1762300800.5" :> "248cb47e"
    @@ "NullPointerException at line infinity1762300800.6" :> "cc254d40"
    @@ "NullPointerException at line infinity1762300800.7" :> "08d60e70"
    @@ "NullPointerException at line infinity1762300800.8" :> "98ff369b"
    @@ "NullPointerException at line infinity1762300800.9" :> "9efc4795"
    @@ "KeyError: 'success'1762300800.0" :> "1bc5d34c"
    @@ "KeyError: 'success'1762300800.1" :> "945acf43"
    @@ "KeyError: 'success'1762300800.2" :> "c1376ccc"
    @@ "KeyError: 'success'1762300800.3" :> "e37f697d"
    @@ "KeyError: 'success'1762300800.4" :> "f2fe3e90"
    @@ "KeyError: 'success'1762300800.5" :> "5349b0ea"
    @@ "KeyError: 'success'1762300800.6" :> "0776e77b"
    @@ "KeyError: 'success'1762300800.7" :> "a3bd2ef8"
    @@ "KeyError: 'success'1762300800.8" :> "7d9e82f3"
    @@ "KeyError: 'success'1762300800.9" :> "c6855784"
    @@ "RuntimeError: Unknown error occurred1762300800.0" :> "0954377b"
    @@ "RuntimeError: Unknown error occurred1762300800.1" :> "f87f313b"
    @@ "RuntimeError: Unknown error occurred1762300800.2" :> "2e5fda2c"
    @@ "RuntimeError: Unknown error occurred1762300800.3" :> "5e9b1415"
    @@ "RuntimeError: Unknown error occurred1762300800.4" :> "8b89919d"
    @@ "RuntimeError: Unknown error occurred1762300800.5" :> "58528009"
    @@ "RuntimeError: Unknown error occurred1762300800.6" :> "15b8b568"
    @@ "RuntimeError: Unknown error occurred1762300800.7" :> "35015a6a"
    @@ "RuntimeError: Unknown error occurred1762300800.8" :> "fc214a8f"
    @@ "RuntimeError: Unknown error occurred1762300800.9" :> "37004065"
    @@ "ValueError: Invalid value1762300800.0" :> "1030d2f9"
    @@ "ValueError: Invalid value1762300800.1" :> "6cb5cfaf"
    @@ "ValueError: Invalid value1762300800.2" :> "7c454385"
    @@ "ValueError: Invalid value1762300800.3" :> "42a8b822"
    @@ "ValueError: Invalid value1762300800.4" :> "4c1d7b6f"
    @@ "ValueError: Invalid value1762300800.5" :> "b3cff758"
    @@ "ValueError: Invalid value1762300800.6" :> "3f312437"
    @@ "ValueError: Invalid value1762300800.7" :> "9183e8ba"
    @@ "ValueError: Invalid value1762300800.8" :> "c7920583"
    @@ "ValueError: Invalid value1762300800.9" :> "092735fb"
    @@ "TypeError: Type mismatch1762300800.0" :> "e1d2f6d8"
    @@ "TypeError: Type mismatch1762300800.1" :> "78a9e0c1"
    @@ "TypeError: Type mismatch1762300800.2" :> "08fa1f66"
    @@ "TypeError: Type mismatch1762300800.3" :> "c42e8300"
    @@ "TypeError: Type mismatch1762300800.4" :> "aed80abc"
    @@ "TypeError: Type mismatch1762300800.5" :> "bb8e23c9"
    @@ "TypeError: Type mismatch1762300800.6" :> "5a4fe5d8"
    @@ "TypeError: Type mismatch1762300800.7" :> "e700b083"
    @@ "TypeError: Type mismatch1762300800.8" :> "5e2342e5"
    @@ "TypeError: Type mismatch1762300800.9" :> "6e21aa53"
    @@ "MemoryError: Out of memory1762300800.0" :> "b66071e7"
    @@ "MemoryError: Out of memory1762300800.1" :> "722715da"
    @@ "MemoryError: Out of memory1762300800.2" :> "abf666d0"
    @@ "MemoryError: Out of memory1762300800.3" :> "2c95bb91"
    @@ "MemoryError: Out of memory1762300800.4" :> "9c3ae3f6"
    @@ "MemoryError: Out of memory1762300800.5" :> "456313bd"
    @@ "MemoryError: Out of memory1762300800.6" :> "2a70fa8b"
    @@ "MemoryError: Out of memory1762300800.7" :> "b72d732b"
    @@ "MemoryError: Out of memory1762300800.8" :> "7887db08"
    @@ "MemoryError: Out of memory1762300800.9" :> "3e1e5dc1"

HexDigits == "0123456789abcdef"
HexValue(c) == (CHOOSE i \in 1..16 : CharAt(HexDigits, i) = c) - 1

\* int(h, 16) for at most four hex digits
RECURSIVE HexToInt(_)
HexToInt(h) ==
    IF h = "" THEN 0
    ELSE HexToInt(SubSeq(h, 1, Len(h) - 1)) * 16 + HexValue(CharAt(h, Len(h)))

\* int(hash_hex, 16) for the eight digits of the seed
IntOfHex8(h) == Limbs(HexToInt(SubSeq(h, 1, 4)), HexToInt(SubSeq(h, 5, 8)))

\* _generate_quantum_seed(error_message) when time.time() reads t
GenerateQuantumSeed(message, t) == IntOfHex8(Md5Hex8[message \o FormatTime(t)])

(***************************************************************************)
(* DataLoader.load_all (data/loader.py)                                    *)
(***************************************************************************)
Categories ==
    << "quantum", "cosmic", "ai", "technical", "blame",
       "recommendations", "connectors", "intensifiers" >>

CategoryNames == {Categories[i] : i \in 1..Len(Categories)}

\* The categories generate never takes excuses from (generator.py 126, 135).
ReservedCategories == {"recommendations", "connectors", "intensifiers"}

\* A loaded value: a list of phrases, or the mapping severity -> phrases.
PhraseList(items) == [kind |-> "list", items |-> items, by_severity |-> <<>>]
PhraseDict(by_severity) == [kind |-> "dict", items |-> <<>>, by_severity |-> by_severity]

\* _get_fallback_data(category)
GetFallbackData(category) ==
    CASE category = "quantum" -> PhraseList(<<"quantum interference">>)
      [] category = "cosmic" -> PhraseList(<<"cosmic ray interference">>)
      [] category = "ai" -> PhraseList(<<"AI malfunction">>)
      [] category = "technical" -> PhraseList(<<"technical difficulties">>)
      [] category = "blame" -> PhraseList(<<"unexpected behavior">>)
      [] category = "recommendations" -> PhraseList(<<"Try again later">>)
      [] category = "connectors" -> PhraseList(<<"which caused", "resulting in">>)
      [] category = "intensifiers" ->
            PhraseDict([mild |-> <<"slightly">>,
                        medium |-> <<"definitely">>,
                        severe |-> <<"catastrophically">>])
      [] OTHER -> PhraseList(<<"unknown error">>)

\* What a file holds: nothing (it is missing), text that json.load rejects
\* (corrupt), or JSON of one of these kinds: empty data ({} or []), a list
\* of phrases, a mapping with the list of one severity only (partial), a
\* mapping with an empty list for every severity (hollow).
FileKinds == {"missing", "corrupt", "empty", "phrases", "partial", "hollow"}

\* json.load(f), and data["excuses"] when there is one
FileData(kind) ==
    CASE kind = "phrases" -> PhraseList(<<"solar wind", "static">>)
      [] kind = "partial" -> PhraseDict([mild |-> <<"barely">>])
      [] kind = "hollow" -> PhraseDict([mild |-> <<>>, medium |-> <<>>, severe |-> <<>>])
      [] OTHER -> PhraseList(<<>>)

\* load_file(filename): {} for a missing file, DataLoadError for one that
\* does not parse.
LoadFile(dir, filename) ==
    IF dir[filename] = "missing" THEN [raised |-> "", value |-> PhraseList(<<>>)]
    ELSE IF dir[filename] = "corrupt"
         THEN [raised |-> "DataLoadError", value |-> PhraseList(<<>>)]
         ELSE [raised |-> "", value |-> FileData(dir[filename])]

\* `if loaded_data:`
NonEmptyData(value) ==
    IF value.kind = "list" THEN value.items # <<>> ELSE DOMAIN value.by_severity # {}

\* load_all over the files of the data directory: a category whose file
\* loads as empty data is left out, a category whose file does not parse
\* gets the fallback data.  The dict is held as the sequence of its items,
\* in insertion order.
RECURSIVE LoadFrom(_, _, _)
LoadFrom(dir, i, collected) ==
    IF i > Len(Categories) THEN collected
    ELSE LET category == Categories[i]
             loaded_data == LoadFile(dir, category)
         IN  LoadFrom(dir, i + 1,
                 IF loaded_data.raised # ""
                 THEN Append(collected, [key |-> category,
                                         value |-> GetFallbackData(category)])
                 ELSE IF NonEmptyData(loaded_data.value)
                 THEN Append(collected, [key |-> category, value |-> loaded_data.value])
                 ELSE collected)

LoadAll(dir) == LoadFrom(dir, 1, <<>>)

\* list(d.keys()), k in d, d[k]
Keys(d) == [i \in 1..Len(d) |-> d[i].key]
HasKey(d, k) == \E i \in 1..Len(d) : d[i].key = k
Get(d, k) == d[CHOOSE i \in 1..Len(d) : d[i].key = k].value

\* The data directories of the model: one where no file parses (every
\* category falls back), one that holds nothing but an unreadable
\* quantum.json.
AllCorrupt == [c \in CategoryNames |-> "corrupt"]
AllMissing == [c \in CategoryNames |-> "missing"]
Installations == {AllCorrupt, [AllMissing EXCEPT !["quantum"] = "corrupt"]}

\* What load_all returned; before the call there is nothing.
NotLoaded == [status |-> "unset", data |-> <<>>]

\* A DataLoader that is not used: an empty directory, no call.
LoaderIdle ==
    /\ files = AllMissing
    /\ loaded = NotLoaded

\* The directories of the loader model: the file of each reserved category
\* in any of four states, the files of the other categories in one of them.
LoaderInit ==
    /\ \E common \in {"missing", "corrupt", "empty", "phrases"},
          reserved \in [ReservedCategories -> {"missing", "corrupt", "empty", "phrases"}] :
            files = [c \in CategoryNames |->
                        IF c \in ReservedCategories THEN reserved[c] ELSE common]
    /\ loaded = NotLoaded

\* loader.load_all()
LoadAllCall ==
    /\ loaded = NotLoaded
    /\ loaded' = [status |-> "returned", data |-> LoadAll(files)]
    /\ UNCHANGED <<files, notLoader>>

LoaderNext == LoadAllCall

(***************************************************************************)
(* RateLimiter (utils.py 343-379)                                          *)
(***************************************************************************)
\* Bounds of the limiter model: max_calls in 0..MaxRate, period in
\* 0..MaxPeriod, a clock that reads 0..MaxTicks, MaxChecks calls of
\* is_allowed in one run.
MaxRate == 2
MaxPeriod == 2
MaxTicks == 4
MaxChecks == 4

\* RateLimiter(max_calls, period)
NewRateLimiter(max_calls, period) ==
    [max_calls |-> max_calls, period |-> period, calls |-> <<>>]

\* A limiter that is not used.
LimiterIdle ==
    /\ limiter = NewRateLimiter(0, 0)
    /\ limiter_clock = 0
    /\ allowed = <<>>

LimiterInit ==
    /\ \E max_calls \in 0..MaxRate, period \in 0..MaxPeriod :
            limiter = NewRateLimiter(max_calls, period)
    /\ limiter_clock = 0
    /\ allowed = <<>>

\* A plausible slip: a call is allowed while the list holds max_calls
\* timestamps (<= for <).
IsAllowedAtLimit(l, time) ==
    LET kept == SelectSeq(l.calls, LAMBDA t : time - t < l.period)
    IN  IF Len(kept) <= l.max_calls
        THEN [limiter |-> [l EXCEPT !.calls = Append(kept, time)], result |-> TRUE]
        ELSE [limiter |-> [l EXCEPT !.calls = kept], result |-> FALSE]

\* is_allowed() when the clock reads time: the calls outside the period are
\* dropped (line 369), the call is recorded and allowed when fewer than
\* max_calls are left (lines 372-374).
IsAllowed(l, time) ==
    LET kept == SelectSeq(l.calls, LAMBDA t : time - t < l.period)
    IN  IF Len(kept) < l.max_calls
        THEN [limiter |-> [l EXCEPT !.calls = Append(kept, time)], result |-> TRUE]
        ELSE [limiter |-> [l EXCEPT !.calls = kept], result |-> FALSE]

\* limiter.is_allowed(): time.time() is read, it has not gone back.
IsAllowedCall ==
    /\ Len(allowed) < MaxChecks
    /\ \E time \in limiter_clock..MaxTicks :
         LET checked == IsAllowed(limiter, time)
         IN  /\ limiter_clock' = time
             /\ limiter' = checked.limiter
             /\ allowed' = Append(allowed, [time |-> time, result |-> checked.result])
    /\ UNCHANGED notLimiter

\* limiter.reset()
ResetLimiter ==
    /\ limiter.calls # <<>>
    /\ limiter' = [limiter EXCEPT !.calls = <<>>]
    /\ UNCHANGED <<limiter_clock, allowed, notLimiter>>

LimiterNext == IsAllowedCall \/ ResetLimiter

(***************************************************************************)
(* MarkovChain (markov.py)                                                 *)
(***************************************************************************)
\* self.default_corpus.split()
DefaultCorpus ==
    <<
       "distributed", "systems", "consensus", "algorithm", "byzantine", "fault",
       "tolerance", "eventual", "consistency", "CAP", "theorem", "race",
       "condition", "deadlock", "mutex", "garbage", "collection", "memory",
       "leak", "stack", "overflow", "heap", "corruption", "cache",
       "miss", "branch", "prediction", "pipeline", "stall", "context",
       "switch", "virtual", "memory", "page", "fault", "segmentation",
       "violation", "kernel", "panic", "quantum", "supremacy", "neural",
       "architecture", "tensor", "flow", "gradient", "descent", "backpropagation",
       "activation", "function", "loss", "landscape", "optimization", "container",
       "orchestration", "service", "mesh", "circuit", "breaker", "load",
       "balancer", "microservice", "architecture", "event", "sourcing", "CQRS",
       "saga", "pattern", "blockchain", "immutable", "ledger", "smart",
       "contract", "proof", "of", "work", "machine", "learning",
       "deep", "learning", "reinforcement", "learning", "transfer", "natural",
       "language", "processing", "computer", "vision", "generative", "adversarial",
       "edge", "computing", "fog", "computing", "serverless", "lambda",
       "function", "kubernetes", "docker", "swarm", "container", "registry",
       "helm", "chart", "continuous", "integration", "continuous", "deployment",
       "infrastructure", "code", "test", "driven", "development", "behavior",
       "driven", "agile", "scrum", "kanban", "object", "oriented",
       "functional", "programming", "reactive", "streams", "asynchronous", "programming",
       "callback", "promise", "async", "await", "RESTful", "API",
       "GraphQL", "gRPC", "websocket", "protocol", "buffer", "SQL",
       "NoSQL", "ACID", "BASE", "CAP", "eventual", "consistency",
       "indexing", "sharding", "partitioning", "replication", "clustering", "encryption",
       "hashing", "salting", "JWT", "OAuth", "SAML", "SSO",
       "firewall", "VPN", "proxy", "reverse", "proxy", "CDN",
       "WAF", "DDoS", "monitoring", "logging", "tracing", "metrics",
       "alerting", "observability"
    >>

\* The index of key in the table, 0 when it is no key.  The table is held
\* as the sequence of its items [key, values], in insertion order.
ChainIndex(chain, key) ==
    IF \E i \in 1..Len(chain) : chain[i].key = key
    THEN CHOOSE i \in 1..Len(chain) : chain[i].key = key
    ELSE 0

\* A plausible slip: the successor list of the key is replaced, not extended.
TrainStepOverwrites(m, corpus, i) ==
    LET key == SubSeq(corpus, i + 1, i + m.order)
        value == corpus[i + m.order + 1]
        idx == ChainIndex(m.chain, key)
        chain1 == IF idx = 0
                  THEN Append(m.chain, [key |-> key, values |-> <<value>>])
                  ELSE [m.chain EXCEPT ![idx].values = <<value>>]
        starters1 == IF i = 0 \/ IsUpperChar(CharAt(corpus[i + 1], 1))
                     THEN Append(m.starters, key)
                     ELSE m.starters
    IN  [m EXCEPT !.chain = chain1, !.starters = starters1]

\* The body of the loop of train, at index i (0-based).
TrainStep(m, corpus, i) ==
    LET key == SubSeq(corpus, i + 1, i + m.order)
        value == corpus[i + m.order + 1]
        idx == ChainIndex(m.chain, key)
        chain1 == IF idx = 0
                  THEN Append(m.chain, [key |-> key, values |-> <<value>>])
                  ELSE [m.chain EXCEPT ![idx].values = Append(@, value)]
        starters1 == IF i = 0 \/ IsUpperChar(CharAt(corpus[i + 1], 1))
                     THEN Append(m.starters, key)
                     ELSE m.starters
    IN  [m EXCEPT !.chain = chain1, !.starters = starters1]

\* The turns first..last of the loop, in order.  The range is halved and
\* the first half is evaluated (by the test on its order, which train never
\* changes) before the second is entered: this keeps the evaluation shallow.
RECURSIVE TrainRange(_, _, _, _)
TrainRange(m, corpus, first, last) ==
    IF first > last THEN m
    ELSE IF first = last THEN TrainStep(m, corpus, first)
    ELSE LET middle == (first + last) \div 2
             learned == TrainRange(m, corpus, first, middle)
         IN  IF learned.order = m.order
             THEN TrainRange(learned, corpus, middle + 1, last)
             ELSE learned

\* train(corpus)
Train(m, corpus) ==
    IF Len(corpus) < m.order + 1 THEN m
    ELSE LET trained == TrainRange(m, corpus, 0, Len(corpus) - m.order - 1)
         IN  IF trained.starters = <<>> /\ trained.chain # <<>>
             THEN [trained EXCEPT !.starters = Keys(trained.chain)]
             ELSE trained

\* MarkovChain(order)
NewMarkovChain(order) ==
    Train([order |-> order, chain |-> <<>>, starters |-> <<>>], DefaultCorpus)

\* The chain every generator starts from, before its own data is learned.
DefaultMarkovChain == NewMarkovChain(1)

\* reset(): both collections cleared, the default corpus learned again.
\* A plausible slip: the starters are left as they are.
ResetKeepsStarters(m) == Train([m EXCEPT !.chain = <<>>], DefaultCorpus)

Reset(m) == Train([m EXCEPT !.chain = <<>>, !.starters = <<>>], DefaultCorpus)

\* What a generate call on the chain was given and gave; before the first
\* call there is none.
Generated(status, length, start_word, phrase) ==
    [status |-> status, length |-> length, start_word |-> start_word, phrase |-> phrase]
NotGenerated == Generated("unset", 0, None, "")

\* No chain is used on its own.
MarkovIdle ==
    /\ generated = NotGenerated
    /\ ops = <<>>

\* " ".join(words)
RECURSIVE Join(_)
Join(words) ==
    IF words = <<>> THEN ""
    ELSE IF Len(words) = 1 THEN words[1]
    ELSE words[1] \o " " \o Join(Tail(words))

RECURSIVE Concat(_)
Concat(seqs) == IF seqs = <<>> THEN <<>> ELSE Head(seqs) \o Concat(Tail(seqs))

(***************************************************************************)
(* ExcuseFormatter.format_excuse (formatter.py), max_length None           *)
(***************************************************************************)
FormatExcuse(primary_excuse, secondary_excuse, intensifier, connector, markov_phrase) ==
    LET main == "The error was " \o intensifier \o " caused by " \o primary_excuse
        second == connector \o " " \o secondary_excuse
        third == "Additionally, analysis shows " \o markov_phrase \o " instability"
    IN  IF markov_phrase # ""
        THEN main \o ". " \o second \o ". " \o third \o "."
        ELSE main \o ". " \o second \o "."

(***************************************************************************)
(* ExcuseGenerator: construction, generate                                 *)
(***************************************************************************)
\* Bounds of the generator model: MaxCalls invocations of
\* _generate_quantum_seed in one run (alone or inside generate), a wall
\* clock that reads 0..MaxClock.
MaxCalls == 2
MaxClock == 1

\* The threads that call into the one generator.  A call runs on the
\* free thread of the lowest number (which thread it is changes nothing).
Threads == {1, 2}

\* The arguments of the calls.
Messages == {"", "FATAL ERROR"}
Hints == {None, Str("cosmic"), Str("connectors")}

\* _build_markov_chain: the words of the quantum, technical and ai phrases
\* are learned on top of the default corpus.
BuildMarkovChain(d) ==
    LET present == SelectSeq(<<"quantum", "technical", "ai">>, LAMBDA c : HasKey(d, c))
        technical_terms == Concat([i \in 1..Len(present) |-> Get(d, present[i]).items])
        corpus == Concat([i \in 1..Len(technical_terms) |-> StrSplit(technical_terms[i])])
    IN  Train(DefaultMarkovChain, corpus)

\* The locals of a generate call; pc is the statement the call is at.  A
\* call made by generate_batch(count) has the locals of the batch as well:
\* the turns of its loop that are left, this one included, and the excuses
\* collected so far.
IdleFrame ==
    [ pc |-> "idle",
      error_message |-> "", category |-> None, severity |-> "",
      quantum_seed |-> Limbs(0, 0), seed_time |-> 0,
      primary_category |-> "", primary_excuse |-> "",
      secondary_category |-> "", secondary_excuse |-> "",
      intensifier |-> "", connector |-> "",
      markov_phrase |-> "",
      save_history |-> TRUE,
      count |-> 0, turns |-> 0, excuses |-> <<>>,
      alone |-> TRUE ]

Active(t) == frames[t].pc # "idle"
FreeThread(t) == ~Active(t) /\ \A u \in Threads : u < t => Active(u)

\* What a call leaves behind: the Excuse it returned or the exception it
\* raised, with the arguments, the seed and the clock reading of the call.
\* alone: no other generate call was in progress at any time of this one.
Returned(f, excuse) ==
    [ raised |-> "", excuse |-> excuse,
      error_message |-> f.error_message, category |-> f.category,
      quantum_seed |-> f.quantum_seed, seed_time |-> f.seed_time,
      save_history |-> f.save_history,
      alone |-> f.alone ]

NoExcuse ==
    [ text |-> "", recommendation |-> "", severity |-> "", category |-> "",
      quality_score |-> 0, quantum_probability |-> 0, language |-> "",
      timestamp |-> 0,
      metadata |-> [ secondary_category |-> "", markov_component |-> "",
                     context |-> None, error_message |-> "" ] ]

Raised(f, exception) == [Returned(f, NoExcuse) EXCEPT !.raised = exception]

\* What a generate_batch(count) call left behind: the list it returned or
\* the exception that ended it.
Batch(count, excuses, exception) ==
    [count |-> count, excuses |-> excuses, raised |-> exception]

\* export_history not called yet.
NotExported == [status |-> "unset", format |-> "", records |-> <<>>, text |-> ""]

\* The CLI has not called generate_excuses.
NoCli ==
    [ pc |-> "idle", error |-> "", category |-> None, count |-> 0, min_score |-> 0,
      max_attempts |-> 0, turns |-> 0, attempts |-> 0,
      last_excuse |-> <<>>, excuses |-> <<>>, calls |-> <<>>, raised |-> "" ]

\* No call made yet on the generator.
NoCalls ==
    /\ exported = NotExported
    /\ cli = NoCli
    /\ frames = [t \in Threads |-> IdleFrame]
    /\ invocations = <<>>
    /\ returned = <<>>
    /\ history = <<>>
    /\ cleared_at = 0
    /\ batches = <<>>

GenInit ==
    /\ rng \in EntropyStates
    /\ clock = 0
    /\ \E dir \in Installations :
        /\ data = LoadAll(dir)
        /\ markov = BuildMarkovChain(LoadAll(dir))
    /\ NoCalls

GenIdle ==
    /\ rng = 0
    /\ clock = 0
    /\ data = <<>>
    /\ markov = [order |-> 1, chain |-> <<>>, starters |-> <<>>]
    /\ NoCalls

\* Thread t moves on with frame g.
Goto(t, g) == frames' = [frames EXCEPT ![t] = g]

\* The call of thread t ends with an exception; it goes through the
\* generate_batch call that made it.
Raise(t, exception) ==
    /\ frames' = [frames EXCEPT ![t] = IdleFrame]
    /\ returned' = Append(returned, Raised(frames[t], exception))
    /\ batches' = IF frames[t].turns > 0
                  THEN Append(batches, Batch(frames[t].count, frames[t].excuses, exception))
                  ELSE batches

\* time.time() is read: the clock may have advanced since the last reading.
Readings == {t \in clock..(clock + 1) : t <= MaxClock}

\* generator._generate_quantum_seed(error_message), called on its own.
GenerateQuantumSeedCall(message) ==
    /\ Len(invocations) < MaxCalls
    /\ \E time \in Readings :
        /\ clock' = time
        /\ invocations' = Append(invocations,
                [ error_message |-> message, time |-> time,
                  seed |-> GenerateQuantumSeed(message, time) ])
    /\ UNCHANGED <<rng, data, markov, history, cleared_at, frames, returned, batches, notGen>>

\* Lines 113-116 of the generate call thread t makes with the locals
\* `entry` (none, or those of its batch): the severity and the seed of the
\* call.
Enter(t, entry, message, hint, save_history) ==
    \E time \in Readings :
       LET seed == GenerateQuantumSeed(message, time)
           others == \E u \in Threads \ {t} : Active(u)
       IN  /\ clock' = time
           /\ frames' = [u \in Threads |->
                  IF u = t
                  THEN [entry EXCEPT
                          !.pc = "seeded",
                          !.error_message = message,
                          !.category = hint,
                          !.severity = Analyze(analyzer, Str(message)),
                          !.quantum_seed = seed,
                          !.seed_time = time,
                          !.save_history = save_history,
                          !.alone = ~others]
                  ELSE IF Active(u) THEN [frames[u] EXCEPT !.alone = FALSE]
                  ELSE frames[u]]
           /\ invocations' = Append(invocations,
                  [error_message |-> message, time |-> time, seed |-> seed])

\* generate(error_message, category=hint, save_history=save_history)
Generate(t, message, hint, save_history) ==
    /\ FreeThread(t)
    /\ Len(invocations) < MaxCalls
    /\ Enter(t, IdleFrame, message, hint, save_history)
    /\ UNCHANGED <<rng, data, markov, history, cleared_at, returned, batches, notGen>>

\* sample_errors of generate_batch
SampleErrors ==
    << "FATAL ERROR: Everything is broken!",
       "SegmentationFault: Core dumped",
       "NullPointerException at line infinity",
       "KeyError: 'success'",
       "RuntimeError: Unknown error occurred",
       "ValueError: Invalid value",
       "TypeError: Type mismatch",
       "MemoryError: Out of memory" >>

\* The number of generate_batch calls of a run.
MaxBatches == 2

\* generate_batch(count) is called: with nothing to do it returns the empty
\* list, else its loop starts.  The run has room for the seeds of its calls
\* and for one more batch.
GenerateBatch(t, count) ==
    /\ FreeThread(t)
    /\ Len(invocations) + count <= MaxCalls
    /\ Len(batches) < MaxBatches
    /\ IF count <= 0
       THEN /\ batches' = Append(batches, Batch(count, <<>>, ""))
            /\ UNCHANGED frames
       ELSE /\ Goto(t, [IdleFrame EXCEPT !.pc = "batch", !.count = count, !.turns = count])
            /\ UNCHANGED batches
    /\ UNCHANGED <<rng, clock, data, markov, history, cleared_at,
                   invocations, returned, notGen>>

\* One turn of the loop of generate_batch, lines 242-243: an error is drawn
\* from the samples and generate is called with it.
BatchTurn(t) ==
    /\ frames[t].pc = "batch"
    /\ rng' = RngStep(rng)
    /\ Enter(t, frames[t], RandomChoice(rng, SampleErrors), None, TRUE)
    /\ UNCHANGED <<data, markov, history, cleared_at, returned, batches, notGen>>

\* clear_history()
ClearHistory(t) ==
    /\ FreeThread(t)
    /\ history' = <<>>
    /\ cleared_at' = Len(returned)
    /\ UNCHANGED <<rng, clock, data, markov, frames, invocations, returned,
                   batches, notGen>>

\* line 117: random.seed(quantum_seed)
Reseed(t) ==
    /\ frames[t].pc = "seeded"
    /\ rng' = RandomSeed(frames[t].quantum_seed)
    /\ Goto(t, [frames[t] EXCEPT !.pc = "primary"])
    /\ UNCHANGED <<clock, data, markov, history, cleared_at, invocations, returned, batches, notGen>>

\* A plausible slip: the hint is not looked at, the category is drawn.
SelectPrimaryIgnoresHint(t) ==
    LET f == frames[t]
    IN  /\ f.pc = "primary"
        /\ IF data = <<>>
           THEN /\ Raise(t, "IndexError")
                /\ UNCHANGED rng
           ELSE /\ Goto(t, [f EXCEPT !.pc = "reroll",
                                     !.primary_category = RandomChoice(rng, Keys(data))])
                /\ rng' = RngStep(rng)
                /\ UNCHANGED <<returned, batches>>
        /\ UNCHANGED <<clock, data, markov, history, cleared_at, invocations, notGen>>

\* lines 120-123: the hint when it is a key of the data, a drawn key else.
SelectPrimary(t) ==
    LET f == frames[t]
    IN  /\ f.pc = "primary"
        /\ IF Truthy(f.category) /\ HasKey(data, f.category.s)
           THEN /\ Goto(t, [f EXCEPT !.pc = "reroll", !.primary_category = f.category.s])
                /\ UNCHANGED <<rng, returned, batches>>
           ELSE IF data = <<>>
           THEN /\ Raise(t, "IndexError")
                /\ UNCHANGED rng
           ELSE /\ Goto(t, [f EXCEPT !.pc = "reroll",
                                     !.primary_category = RandomChoice(rng, Keys(data))])
                /\ rng' = RngStep(rng)
                /\ UNCHANGED <<returned, batches>>
        /\ UNCHANGED <<clock, data, markov, history, cleared_at, invocations, notGen>>

\* lines 126-127: a reserved primary category is drawn again.
Reroll(t) ==
    LET f == frames[t]
    IN  /\ f.pc = "reroll"
        /\ f.primary_category \in ReservedCategories
        /\ Goto(t, [f EXCEPT !.primary_category = RandomChoice(rng, Keys(data))])
        /\ rng' = RngStep(rng)
        /\ UNCHANGED <<clock, data, markov, history, cleared_at, invocations, returned, batches, notGen>>

\* _get_intensifier(severity), lines 195-200: the list drawn from.
SeverityIntensifiers(d, sev) ==
    IF HasKey(d, "intensifiers") /\ Get(d, "intensifiers").kind = "dict"
    THEN LET by_severity == Get(d, "intensifiers").by_severity
         IN  IF sev \in DOMAIN by_severity THEN by_severity[sev]
             ELSE <<"definitely">>
    ELSE <<"definitely">>

\* self.data.get(key, default) for the list categories
GetList(d, k, default) == IF HasKey(d, k) THEN Get(d, k).items ELSE default

\* A plausible slip: the primary category is not taken out.
AvailableCategoriesWithPrimary(d, primary_category) ==
    SelectSeq(Keys(d), LAMBDA k : k \notin ReservedCategories)

\* lines 133-136: the keys that are neither the primary category nor reserved
AvailableCategories(d, primary_category) ==
    SelectSeq(Keys(d), LAMBDA k : k \notin ({primary_category} \cup ReservedCategories))

\* lines 130-144, five draws in a row: the primary excuse, the secondary
\* category (from the keys that are neither the primary category nor
\* reserved) and its excuse, the intensifier, the connector.  random.choice
\* raises IndexError on an empty list.
SelectExcuses(t) ==
    LET f == frames[t]
        primaries == Get(data, f.primary_category).items
        primary_excuse == RandomChoice(rng, primaries)
        rng1 == RngStep(rng)
        available_categories == AvailableCategories(data, f.primary_category)
        secondary_category == RandomChoice(rng1, available_categories)
        rng2 == RngStep(rng1)
        secondaries == Get(data, secondary_category).items
        secondary_excuse == RandomChoice(rng2, secondaries)
        rng3 == RngStep(rng2)
        intensifiers == SeverityIntensifiers(data, f.severity)
        intensifier == RandomChoice(rng3, intensifiers)
        rng4 == RngStep(rng3)
        connectors == GetList(data, "connectors", <<"which caused">>)
        connector == RandomChoice(rng4, connectors)
        rng5 == RngStep(rng4)
    IN  /\ f.pc = "reroll"
        /\ f.primary_category \notin ReservedCategories
        /\ IF primaries = <<>> THEN Raise(t, "IndexError") /\ UNCHANGED rng
           ELSE IF available_categories = <<>> THEN Raise(t, "IndexError") /\ rng' = rng1
           ELSE IF secondaries = <<>> THEN Raise(t, "IndexError") /\ rng' = rng2
           ELSE IF intensifiers = <<>> THEN Raise(t, "IndexError") /\ rng' = rng3
           ELSE IF connectors = <<>> THEN Raise(t, "IndexError") /\ rng' = rng4
           ELSE /\ Goto(t, [f EXCEPT !.pc = "markov",
                                     !.primary_excuse = primary_excuse,
                                     !.secondary_category = secondary_category,
                                     !.secondary_excuse = secondary_excuse,
                                     !.intensifier = intensifier,
                                     !.connector = connector])
                /\ rng' = rng5
                /\ UNCHANGED <<returned, batches>>
        /\ UNCHANGED <<clock, data, markov, history, cleared_at, invocations, notGen>>

\* self.chain[key], the table being a defaultdict(list): the table after
\* the read.  Reading a key that is missing inserts it with an empty list.
GetItem(chain, key) ==
    IF ChainIndex(chain, key) = 0
    THEN Append(chain, [key |-> key, values |-> <<>>])
    ELSE chain

\* A plausible slip: the loop reads self.chain[current] before it tests it,
\* and takes an empty list for the dead end.
RECURSIVE MarkovLoopReadsFirst(_, _, _, _, _)
MarkovLoopReadsFirst(m, state, current, result, remaining) ==
    IF remaining <= 0
    THEN [result |-> result, rng |-> state, raised |-> "", chain |-> m.chain]
    ELSE LET chain1 == GetItem(m.chain, current)
             m1 == [m EXCEPT !.chain = chain1]
             idx == ChainIndex(chain1, current)
             next_word == RandomChoice(state, chain1[idx].values)
         IN  IF chain1[idx].values # <<>>
             THEN MarkovLoopReadsFirst(m1, RngStep(state),
                                       IF m.order = 1 THEN <<next_word>>
                                       ELSE Append(Tail(current), next_word),
                                       Append(result, next_word), remaining - 1)
             ELSE MarkovLoopReadsFirst(m1, RngStep(state),
                                       RandomChoice(state, Keys(chain1)),
                                       result, remaining - 1)

\* The loop of MarkovChain.generate (markov.py 117-132) with `remaining`
\* turns to go: a successor of the current key, or another key at a dead
\* end.  Gives the words, the state the draws leave the generator in, and
\* the table the reads leave behind (the table is read with self.chain[current]
\* only after `current in self.chain` has held); random.choice raises
\* IndexError on an empty list.
RECURSIVE MarkovLoop(_, _, _, _, _)
MarkovLoop(m, state, current, result, remaining) ==
    IF remaining <= 0
    THEN [result |-> result, rng |-> state, raised |-> "", chain |-> m.chain]
    ELSE LET idx == ChainIndex(m.chain, current)
             chain1 == GetItem(m.chain, current)
             next_word == RandomChoice(state, chain1[idx].values)
         IN  IF idx # 0
             THEN IF chain1[idx].values = <<>>
                  THEN [result |-> result, rng |-> state, raised |-> "IndexError",
                        chain |-> chain1]
                  ELSE MarkovLoop([m EXCEPT !.chain = chain1], RngStep(state),
                                  IF m.order = 1 THEN <<next_word>>
                                  ELSE Append(Tail(current), next_word),
                                  Append(result, next_word), remaining - 1)
             ELSE MarkovLoop(m, RngStep(state),
                             RandomChoice(state, Keys(m.chain)),
                             result, remaining - 1)

\* [k for k in self.chain.keys() if start_word in k]
MatchingKeys(m, start_word) ==
    SelectSeq(Keys(m.chain), LAMBDA k : \E i \in 1..Len(k) : k[i] = start_word)

\* MarkovChain.generate(length, start_word): the phrase, the state the
\* draws leave the generator in, and the table after the call.
MarkovGenerateFrom(m, state, length, start_word) ==
    IF m.chain = <<>>
    THEN [phrase |-> "technical difficulties", rng |-> state, raised |-> "",
          chain |-> m.chain]
    ELSE LET matching_keys ==
                 IF Truthy(start_word) THEN MatchingKeys(m, start_word.s) ELSE <<>>
             drawn_from ==
                 IF matching_keys # <<>> THEN matching_keys
                 ELSE IF m.starters # <<>> THEN m.starters
                 ELSE Keys(m.chain)
             current == RandomChoice(state, drawn_from)
             walk == MarkovLoop(m, RngStep(state), current, current, length - m.order)
         IN  IF drawn_from = <<>>
             THEN [phrase |-> "", rng |-> state, raised |-> "IndexError",
                   chain |-> m.chain]
             ELSE [phrase |-> Join(walk.result), rng |-> walk.rng, raised |-> walk.raised,
                   chain |-> walk.chain]

\* MarkovChain.generate(length), without start_word
MarkovGenerate(m, state, length) == MarkovGenerateFrom(m, state, length, None)

\* line 147: markov_phrase = self.markov.generate(length=5)
MarkovPhrase(t) ==
    LET f == frames[t]
        phrased == MarkovGenerate(markov, rng, 5)
    IN  /\ f.pc = "markov"
        /\ IF phrased.raised # ""
           THEN Raise(t, phrased.raised)
           ELSE /\ Goto(t, [f EXCEPT !.pc = "excuse", !.markov_phrase = phrased.phrase])
                /\ UNCHANGED <<returned, batches>>
        /\ rng' = phrased.rng
        /\ markov' = [markov EXCEPT !.chain = phrased.chain]
        /\ UNCHANGED <<clock, data, history, cleared_at, invocations, notGen>>

\* CosmicExcuse.generate, lines 313-314: the Excuse is kept when asked to.
\* A plausible slip: it is kept whatever save_history says.
SaveHistoryAlways(h, save_history, excuse) == Append(h, excuse)

SaveHistory(h, save_history, excuse) ==
    IF save_history THEN Append(h, excuse) ELSE h

\* lines 150-185: the text, the recommendation drawn, the quality score
\* (len(excuse_text) * seed % 100 reads the seed modulo 100 only), the draw
\* of random.random(), the reading of the clock; the Excuse is returned,
\* kept in the history (lines 311-316) and, in a batch, appended to its
\* list (lines 243-246), which is returned after the last turn.
Return(t) ==
    LET f == frames[t]
        text == FormatExcuse(f.primary_excuse, f.secondary_excuse,
                             f.intensifier, f.connector, f.markov_phrase)
        recommendations ==
            GetList(data, "recommendations", <<"Try turning it off and on again">>)
        excuse ==
            [ text |-> text,
              recommendation |-> RandomChoice(rng, recommendations),
              severity |-> f.severity,
              category |-> f.primary_category,
              quality_score |->
                  CalculateQualityScore(text, LimbsMod(f.quantum_seed, 100)),
              quantum_probability |-> RandomRandom(RngStep(rng)),
              language |-> "en",
              timestamp |-> clock,
              metadata |-> [ secondary_category |-> f.secondary_category,
                             markov_component |-> f.markov_phrase,
                             context |-> None,
                             error_message |-> f.error_message ] ]
    IN  /\ f.pc = "excuse"
        /\ IF recommendations = <<>>
           THEN /\ Raise(t, "IndexError")
                /\ UNCHANGED <<rng, clock, history>>
           ELSE /\ rng' = RngStep(RngStep(rng))
                /\ \E time \in Readings :
                     LET made == [excuse EXCEPT !.timestamp = time]
                         collected == Append(f.excuses, made)
                     IN  /\ clock' = time
                         /\ returned' = Append(returned, Returned(f, made))
                         /\ history' = SaveHistory(history, f.save_history, made)
                         /\ IF f.turns > 1
                            THEN /\ Goto(t, [IdleFrame EXCEPT !.pc = "batch",
                                                              !.count = f.count,
                                                              !.turns = f.turns - 1,
                                                              !.excuses = collected])
                                 /\ UNCHANGED batches
                            ELSE /\ Goto(t, IdleFrame)
                                 /\ batches' = IF f.turns = 1
                                               THEN Append(batches, Batch(f.count, collected, ""))
                                               ELSE batches
        /\ UNCHANGED <<data, markov, invocations, cleared_at, notGen>>

GenNext ==
    \/ \E message \in Messages : GenerateQuantumSeedCall(message)
    \/ \E t \in Threads, message \in Messages, hint \in Hints :
            Generate(t, message, hint, TRUE)
    \/ \E t \in Threads : Reseed(t)
    \/ \E t \in Threads : SelectPrimary(t)
    \/ \E t \in Threads : Reroll(t)
    \/ \E t \in Threads : SelectExcuses(t)
    \/ \E t \in Threads : MarkovPhrase(t)
    \/ \E t \in Threads : Return(t)

\* A generator built on one of the data directories, no call made yet; the
\* other components idle.
InitGen ==
    GenInit /\ BoardIdle /\ AnalyzerIdle /\ ScoreIdle /\ MarkovIdle /\ LoaderIdle
        /\ LimiterIdle

SpecGen == InitGen /\ [][GenNext]_vars

(***************************************************************************)
(* A CosmicExcuse session: one caller, generate, generate_batch,           *)
(* clear_history                                                           *)
(***************************************************************************)
\* The thread of the session.
Caller == 1

\* The argument of generate_batch.
BatchCounts == {0, 1, 2}

\* The data directories of the session model.  Every file unreadable (the
\* whole fallback corpus) and, from there: no file for the three auxiliary
\* categories; intensifiers.json holding a list, the list of one severity
\* only, or an empty list for every severity; no category of excuses;
\* quantum as the one category of excuses; and the empty directory.
NoExcuseCategories ==
    [c \in CategoryNames |-> IF c \in ReservedCategories THEN "corrupt" ELSE "missing"]
SessionInstallations ==
    { AllCorrupt,
      [c \in CategoryNames |-> IF c \in ReservedCategories THEN "missing" ELSE "corrupt"],
      [AllCorrupt EXCEPT !["intensifiers"] = "phrases"],
      [AllCorrupt EXCEPT !["intensifiers"] = "partial"],
      [AllCorrupt EXCEPT !["intensifiers"] = "hollow"],
      NoExcuseCategories,
      [NoExcuseCategories EXCEPT !["quantum"] = "corrupt"],
      AllMissing }

\* The states of the generator a session starts in.
SessionEntropyStates == {0, 110}

SessionInit ==
    /\ rng \in SessionEntropyStates
    /\ clock = 0
    /\ \E dir \in SessionInstallations :
        /\ data = LoadAll(dir)
        /\ markov = BuildMarkovChain(LoadAll(dir))
    /\ NoCalls

\* The statements of a call in progress.
Step(t) ==
    \/ Reseed(t)
    \/ SelectPrimary(t)
    \/ Reroll(t)
    \/ SelectExcuses(t)
    \/ MarkovPhrase(t)
    \/ Return(t)
    \/ BatchTurn(t)

SessionNext ==
    \/ \E message \in Messages, hint \in Hints, save_history \in BOOLEAN :
            Generate(Caller, message, hint, save_history)
    \/ \E count \in BatchCounts : GenerateBatch(Caller, count)
    \/ ClearHistory(Caller)
    \/ Step(Caller)

\* A session on one of the data directories, no call made yet; the other
\* components idle.
InitSession ==
    SessionInit /\ BoardIdle /\ AnalyzerIdle /\ ScoreIdle /\ MarkovIdle /\ LoaderIdle
        /\ LimiterIdle

SpecSession == InitSession /\ [][SessionNext]_vars

(***************************************************************************)
(* CosmicExcuse.export_history (generator.py 334-365)                      *)
(***************************************************************************)
\* str(n) of an int n >= 0
DecimalDigits == <<"0", "1", "2", "3", "4", "5", "6", "7", "8", "9">>
RECURSIVE IntStr(_)
IntStr(n) ==
    IF n < 10 THEN DecimalDigits[n + 1]
    ELSE IntStr(n \div 10) \o DecimalDigits[(n % 10) + 1]

\* sep.join(parts)
RECURSIVE JoinWith(_, _)
JoinWith(sep, parts) ==
    IF parts = <<>> THEN ""
    ELSE IF Len(parts) = 1 THEN parts[1]
    ELSE parts[1] \o sep \o JoinWith(sep, Tail(parts))

\* A plausible slip: the record is given the category of the secondary
\* excuse.
ExportRecordSecondaryCategory(exc) ==
    [ text |-> exc.text, recommendation |-> exc.recommendation,
      severity |-> exc.severity, category |-> exc.metadata.secondary_category,
      quality_score |-> exc.quality_score, timestamp |-> exc.timestamp,
      language |-> exc.language ]

\* lines 346-356: the dict made of one Excuse
ExportRecord(exc) ==
    [ text |-> exc.text, recommendation |-> exc.recommendation,
      severity |-> exc.severity, category |-> exc.category,
      quality_score |-> exc.quality_score, timestamp |-> exc.timestamp,
      language |-> exc.language ]

\* lines 358-363: the paragraph of the Excuse at index i (0-based)
ExportParagraph(i, exc) ==
    "Excuse #" \o IntStr(i + 1) \o " (Score: " \o IntStr(exc.quality_score) \o "/100):\n"
        \o exc.text \o "\n" \o "Recommendation: " \o exc.recommendation

\* export_history(format) on the history h: the list of dicts, the text, or
\* the ValueError of an unsupported format.
ExportHistoryOf(h, format) ==
    IF format = "json"
    THEN [status |-> "returned", format |-> format,
          records |-> [i \in 1..Len(h) |-> ExportRecord(h[i])], text |-> ""]
    ELSE IF format = "text"
    THEN [status |-> "returned", format |-> format, records |-> <<>>,
          text |-> JoinWith("\n\n", [i \in 1..Len(h) |-> ExportParagraph(i - 1, h[i])])]
    ELSE [status |-> "ValueError", format |-> format, records |-> <<>>, text |-> ""]

\* The formats asked for.
Formats == {"json", "text", "xml"}

\* The data directory of the export model: the whole fallback corpus.
ExportInit ==
    /\ rng \in SessionEntropyStates
    /\ clock = 0
    /\ data = LoadAll(AllCorrupt)
    /\ markov = BuildMarkovChain(LoadAll(AllCorrupt))
    /\ NoCalls

\* export_history(format), called between two calls of the session
ExportHistory(t, format) ==
    /\ FreeThread(t)
    /\ exported' = ExportHistoryOf(history, format)
    /\ UNCHANGED <<genVars, cli, notCaller>>

ExportNext ==
    \/ SessionNext
    \/ \E format \in Formats : ExportHistory(Caller, format)

\* A session that exports its history, no call made yet; the other
\* components idle.
InitExport ==
    ExportInit /\ BoardIdle /\ AnalyzerIdle /\ ScoreIdle /\ MarkovIdle /\ LoaderIdle
        /\ LimiterIdle

SpecExport == InitExport /\ [][ExportNext]_vars

(***************************************************************************)
(* The CLI: generate_excuses (cli.py 110-142)                              *)
(***************************************************************************)
\* max_attempts, which the CLI leaves at its default
DefaultMaxAttempts == 50

\* The arguments error, count and min_score of the runs: nothing asked
\* for, a negative count, a threshold every excuse meets, one no excuse
\* meets (the score is at most 100), and one that the excuse for "" meets
\* once the clock has advanced (its score is 95, then 96).
CliRuns ==
    { <<"FATAL ERROR", 0, 0>>, <<"FATAL ERROR", -1, 0>>, <<"FATAL ERROR", 2, 0>>,
      <<"FATAL ERROR", 1, 101>>, <<"", 1, 96>> }

\* The data directories of the CLI model: the whole fallback corpus, and
\* quantum as the one category of excuses.
CliInstallations ==
    { AllCorrupt, [NoExcuseCategories EXCEPT !["quantum"] = "corrupt"] }

CliInit ==
    /\ rng = 0
    /\ clock = 0
    /\ \E dir \in CliInstallations :
        /\ data = LoadAll(dir)
        /\ markov = BuildMarkovChain(LoadAll(dir))
    /\ NoCalls

\* generate_excuses(generator, error=error, category=category, count=count,
\* min_score=min_score) is called: excuses = [], the loop has range(count)
\* turns to make.
GenerateExcuses(t, error, category, count, min_score) ==
    /\ cli.pc = "idle"
    /\ FreeThread(t)
    /\ cli' = [NoCli EXCEPT !.pc = "for", !.error = error, !.category = category,
                            !.count = count, !.min_score = min_score,
                            !.max_attempts = DefaultMaxAttempts,
                            !.turns = Max(count, 0)]
    /\ UNCHANGED <<exported, genVars, notCaller>>

\* lines 126-128: the next turn of the for loop starts, or the list is
\* returned (line 142).  calls counts the generate calls of each turn.
CliFor(t) ==
    /\ cli.pc = "for"
    /\ cli' = IF cli.turns = 0
              THEN [cli EXCEPT !.pc = "returned"]
              ELSE [cli EXCEPT !.pc = "while", !.turns = @ - 1, !.attempts = 0,
                               !.last_excuse = <<>>, !.calls = Append(@, 0)]
    /\ UNCHANGED <<exported, genVars, notCaller>>

\* lines 130-131: attempts < max_attempts, generate is called
CliAttempt(t) ==
    /\ cli.pc = "while"
    /\ cli.attempts < cli.max_attempts
    /\ FreeThread(t)
    /\ Enter(t, IdleFrame, cli.error, cli.category, TRUE)
    /\ cli' = [cli EXCEPT !.pc = "called", !.calls[Len(cli.calls)] = @ + 1]
    /\ UNCHANGED <<rng, data, markov, history, cleared_at, returned, batches,
                   exported, notCaller>>

\* lines 131-136: the call is over.  Its exception ends generate_excuses;
\* its Excuse is the last one, is appended when it meets the threshold
\* (break), and counts as a failed attempt otherwise.
CliResult(t) ==
    LET r == returned[Len(returned)]
    IN  /\ cli.pc = "called"
        /\ ~Active(t)
        /\ cli' = IF r.raised # ""
                  THEN [cli EXCEPT !.pc = "raised", !.raised = r.raised]
                  ELSE IF r.excuse.quality_score >= cli.min_score
                  THEN [cli EXCEPT !.pc = "for", !.last_excuse = <<r.excuse>>,
                                   !.excuses = Append(@, r.excuse)]
                  ELSE [cli EXCEPT !.pc = "while", !.last_excuse = <<r.excuse>>,
                                   !.attempts = @ + 1]
        /\ UNCHANGED <<exported, genVars, notCaller>>

\* A plausible slip: after the last failed attempt nothing is appended.
CliLastDropsExcuse(t) ==
    /\ cli.pc = "while"
    /\ cli.attempts >= cli.max_attempts
    /\ cli' = [cli EXCEPT !.pc = "for"]
    /\ UNCHANGED <<exported, genVars, notCaller>>

\* lines 130 and 138-140: attempts has reached max_attempts, the last
\* excuse is appended if there is one.
CliLast(t) ==
    /\ cli.pc = "while"
    /\ cli.attempts >= cli.max_attempts
    /\ cli' = [cli EXCEPT !.pc = "for",
                          !.excuses = IF cli.last_excuse # <<>>
                                      THEN Append(@, cli.last_excuse[1])
                                      ELSE @]
    /\ UNCHANGED <<exported, genVars, notCaller>>

\* The statements of the generate call the CLI made.
CliStep(t) ==
    \/ Reseed(t)
    \/ SelectPrimary(t)
    \/ Reroll(t)
    \/ SelectExcuses(t)
    \/ MarkovPhrase(t)
    \/ Return(t)

CliNext ==
    \/ \E run \in CliRuns : GenerateExcuses(Caller, run[1], None, run[2], run[3])
    \/ CliFor(Caller)
    \/ CliAttempt(Caller)
    \/ CliStep(Caller)
    \/ CliResult(Caller)
    \/ CliLast(Caller)

\* A generator built on one of the data directories, generate_excuses not
\* called yet; the other components idle.
InitCli ==
    CliInit /\ BoardIdle /\ AnalyzerIdle /\ ScoreIdle /\ MarkovIdle /\ LoaderIdle
        /\ LimiterIdle

SpecCli == InitCli /\ [][CliNext]_vars

(***************************************************************************)
(* Calls on a corpus with fewer than two categories of excuses             *)
(***************************************************************************)
\* The data directories that load as such a corpus: no category of excuses
\* or quantum alone, with the three auxiliary categories or without them.
FewCategoryInstallations ==
    { NoExcuseCategories,
      [NoExcuseCategories EXCEPT !["quantum"] = "corrupt"],
      [AllMissing EXCEPT !["quantum"] = "corrupt"],
      AllMissing }

FewCategoriesInit ==
    /\ rng \in SessionEntropyStates
    /\ clock = 0
    /\ \E dir \in FewCategoryInstallations :
        /\ data = LoadAll(dir)
        /\ markov = BuildMarkovChain(LoadAll(dir))
    /\ NoCalls

\* The statements such a call gets to: none of them gets past line 138.
FewCategoriesStep(t) ==
    \/ Reseed(t)
    \/ SelectPrimary(t)
    \/ Reroll(t)
    \/ SelectExcuses(t)
    \/ BatchTurn(t)

FewCategoriesNext ==
    \/ \E message \in Messages, hint \in Hints, save_history \in BOOLEAN :
            Generate(Caller, message, hint, save_history)
    \/ \E count \in BatchCounts : GenerateBatch(Caller, count)
    \/ FewCategoriesStep(Caller)

InitFewCategories ==
    FewCategoriesInit /\ BoardIdle /\ AnalyzerIdle /\ ScoreIdle /\ MarkovIdle /\ LoaderIdle
        /\ LimiterIdle

\* The caller's thread keeps running: a call in progress executes its next
\* statement.
FairFewCategories ==
    InitFewCategories /\ [][FewCategoriesNext]_vars /\ WF_vars(FewCategoriesStep(Caller))

(***************************************************************************)
(* A MarkovChain used on its own: train, add_corpus, generate, reset        *)
(***************************************************************************)
\* Bound of the chain model: MaxOps method calls in one run.
MaxOps == 3

\* The orders the chain is constructed with: the default corpus has 170
\* words, a chain of order 170 learns nothing from it.
Orders == {1, 2, 170}

\* The arguments of the calls.
Corpora == { <<"lone">>, <<"Kernel", "panic", "Kernel", "trap", "quantum">> }
CorpusTexts == {"quantum  flux\tCapacitor"}
Lengths == {0, 1, 2, 5}
StartWords == {None, Str("quantum"), Str("absent")}

MarkovInit ==
    /\ \E order \in Orders : markov = NewMarkovChain(order)
    /\ rng \in EntropyStates
    /\ generated = NotGenerated
    /\ ops = <<>>
    /\ clock = 0
    /\ data = <<>>
    /\ NoCalls

\* chain.train(corpus)
TrainCall(corpus) ==
    /\ Len(ops) < MaxOps
    /\ markov' = Train(markov, corpus)
    /\ ops' = Append(ops, "train")
    /\ UNCHANGED <<rng, generated, notMarkov>>

\* chain.add_corpus(text)
AddCorpus(text) ==
    /\ Len(ops) < MaxOps
    /\ markov' = Train(markov, StrSplit(text))
    /\ ops' = Append(ops, "add_corpus")
    /\ UNCHANGED <<rng, generated, notMarkov>>

\* chain.generate(length, start_word)
GenerateCall(length, start_word) ==
    LET phrased == MarkovGenerateFrom(markov, rng, length, start_word)
    IN  /\ Len(ops) < MaxOps
        /\ generated' = Generated(IF phrased.raised = "" THEN "returned" ELSE phrased.raised,
                                  length, start_word, phrased.phrase)
        /\ rng' = phrased.rng
        /\ markov' = [markov EXCEPT !.chain = phrased.chain]
        /\ ops' = Append(ops, "generate")
        /\ UNCHANGED notMarkov

\* chain.reset()
ResetCall ==
    /\ Len(ops) < MaxOps
    /\ markov' = Reset(markov)
    /\ ops' = Append(ops, "reset")
    /\ UNCHANGED <<rng, generated, notMarkov>>

MarkovNext ==
    \/ \E corpus \in Corpora : TrainCall(corpus)
    \/ \E text \in CorpusTexts : AddCorpus(text)
    \/ \E length \in Lengths, start_word \in StartWords : GenerateCall(length, start_word)
    \/ ResetCall

\* A chain of one of the orders, no call made yet; the other components idle.
InitMarkov ==
    MarkovInit /\ BoardIdle /\ AnalyzerIdle /\ ScoreIdle /\ LoaderIdle /\ LimiterIdle

SpecMarkov == InitMarkov /\ [][MarkovNext]_vars

\* A loader on one of the directories, load_all not called yet; the other
\* components idle.
InitLoader ==
    LoaderInit /\ BoardIdle /\ AnalyzerIdle /\ ScoreIdle /\ GenIdle /\ MarkovIdle
        /\ LimiterIdle

SpecLoader == InitLoader /\ [][LoaderNext]_vars

\* A text and a seed; the other components idle.
InitScore ==
    ScoreInit /\ BoardIdle /\ AnalyzerIdle /\ GenIdle /\ MarkovIdle /\ LoaderIdle
        /\ LimiterIdle

SpecScore == InitScore /\ [][ScoreNext]_vars

\* A fresh analyzer and an argument; the other components idle.
InitAnalyzer ==
    AnalyzerInit /\ BoardIdle /\ ScoreIdle /\ GenIdle /\ MarkovIdle /\ LoaderIdle
        /\ LimiterIdle

SpecAnalyzer == InitAnalyzer /\ [][AnalyzerNext]_vars

\* An empty board; the other components idle.
InitBoard ==
    BoardInit /\ AnalyzerIdle /\ ScoreIdle /\ GenIdle /\ MarkovIdle /\ LoaderIdle
        /\ LimiterIdle

SpecBoard == InitBoard /\ [][BoardNext]_vars

\* A board with storage; the other components idle.
InitStore ==
    StoreInit /\ AnalyzerIdle /\ ScoreIdle /\ GenIdle /\ MarkovIdle /\ LoaderIdle
        /\ LimiterIdle

SpecStore == InitStore /\ [][StoreNext]_vars

\* A limiter of some max_calls and period, no call made yet; the other
\* components idle.
InitLimiter ==
    LimiterInit /\ BoardIdle /\ AnalyzerIdle /\ ScoreIdle /\ GenIdle /\ MarkovIdle
        /\ LoaderIdle

SpecLimiter == InitLimiter /\ [][LimiterNext]_vars

-----------------------------------------------------------------------------
RetainedWithScore(v) ==
    Cardinality({i \in 1..Len(entries) : entries[i].quality_score = v})
InsertedWithScore(v) == Cardinality({i \in 1..Len(inserted) : inserted[i] = v})
InsertedAbove(v) == Cardinality({i \in 1..Len(inserted) : inserted[i] > v})

\* How often score v occurs among the max_size highest inserted scores.
TopCount(v) == Max(0, Min(InsertedWithScore(v), max_size - InsertedAbove(v)))

\* C1: after every add_excuse call the board holds at most max_size entries
\* and the multiset of retained quality scores is the multiset of the
\* max_size highest scores inserted so far, whatever the insertion order.
C1_TopScoresRetained ==
    /\ Len(entries) <= max_size
    /\ \A v \in Scores : RetainedWithScore(v) = TopCount(v)

\* C1 witness: a board of capacity >= 2 that has overflowed at least twice,
\* has dropped a score lower than every retained one, and whose newest
\* insertion is the best entry.
C1_Witness ==
    /\ max_size >= 2
    /\ Len(inserted) >= max_size + 2
    /\ Len(entries) = max_size
    /\ \E i \in 1..Len(inserted) : \A k \in 1..Len(entries) :
            inserted[i] < entries[k].quality_score
    /\ inserted[Len(inserted)] = entries[1].quality_score
-----------------------------------------------------------------------------
(***************************************************************************)
(* Claim C21: entries of equal score                                       *)
(***************************************************************************)
\* The number of the add_excuse call that made the entry.
Serial(e) == e.metadata.call

\* Entries of equal score are in the order of their insertion.
EqualScoresInInsertionOrder(es) ==
    \A i, j \in 1..Len(es) :
        (i < j /\ es[i].quality_score = es[j].quality_score)
            => Serial(es[i]) < Serial(es[j])

\* The arguments n of get_top_by_quality.
TopNs == 0..(MaxCapacity + 1)

\* C21: entries of equal quality_score are ranked by insertion order: a
\* retained entry has every earlier-inserted entry of its score retained
\* too, equal-score entries keep their insertion order in entries, and
\* get_top_by_quality lists them in that order.
C21_TiesByInsertionOrder ==
    /\ EqualScoresInInsertionOrder(entries)
    /\ \A i \in 1..Len(entries), k \in 1..Len(inserted) :
            (inserted[k] = entries[i].quality_score /\ k < Serial(entries[i]))
                => \E j \in 1..Len(entries) : Serial(entries[j]) = k
    /\ \A n \in TopNs :
            /\ EqualScoresInInsertionOrder(GetTopByQuality(entries, n))
            /\ Len(GetTopByQuality(entries, n)) = Min(n, Len(entries))

\* C21 witness: the board overflowed, holds two entries of one score, and
\* dropped a later entry of that score.
C21_Witness ==
    /\ Len(inserted) > max_size
    /\ \E i, j \in 1..Len(entries) :
            /\ i < j
            /\ entries[i].quality_score = entries[j].quality_score
            /\ \E k \in 1..Len(inserted) :
                    /\ inserted[k] = entries[j].quality_score
                    /\ k > Serial(entries[j])
                    /\ \A m \in 1..Len(entries) : Serial(entries[m]) # k

(***************************************************************************)
(* Claims C2, C3, C4: the seed and the shared random generator             *)
(***************************************************************************)
\* C2: generate does not reseed or otherwise modify the shared random
\* generator: no step of a generate call changes its state, so what other
\* callers draw does not depend on the seed of the call.
C2_GenerateLeavesSharedGenerator ==
    [][(\E t \in Threads : frames'[t] # frames[t]) => rng' = rng]_vars

\* C3: the seed is call-unique: any two invocations of
\* _generate_quantum_seed return different values, also with the same
\* error message and the same reading of the wall clock.
C3_SeedsCallUnique ==
    \A i, j \in 1..Len(invocations) :
        i # j => invocations[i].seed # invocations[j].seed

\* The (category, quality_score, text) of a returned Excuse.
ExcuseTuple(r) == <<r.excuse.category, r.excuse.quality_score, r.excuse.text>>

\* Two calls of the log that returned an Excuse, were given the same
\* arguments and read the same wall clock.
SameTickCalls(i, j) ==
    /\ i # j
    /\ returned[i].raised = "" /\ returned[j].raised = ""
    /\ returned[i].error_message = returned[j].error_message
    /\ returned[i].category = returned[j].category
    /\ returned[i].seed_time = returned[j].seed_time

\* C4: generate calls with the same error message within one clock tick
\* are not driven to one result: two such calls do not come back with the
\* same (category, quality_score, text).
C4_SameTickCallsDiffer ==
    \A i, j \in 1..Len(returned) :
        SameTickCalls(i, j) => ExcuseTuple(returned[i]) # ExcuseTuple(returned[j])

\* What the code does instead: calls that ran one after the other with the
\* same arguments and equal seeds made every selection alike.
EqualSeedsForceEqualExcuses ==
    \A i, j \in 1..Len(returned) :
        ( /\ SameTickCalls(i, j)
          /\ returned[i].alone /\ returned[j].alone
          /\ returned[i].quantum_seed = returned[j].quantum_seed )
        => /\ ExcuseTuple(returned[i]) = ExcuseTuple(returned[j])
           /\ returned[i].excuse.recommendation = returned[j].excuse.recommendation
           /\ returned[i].excuse.metadata = returned[j].excuse.metadata
           /\ returned[i].excuse.quantum_probability = returned[j].excuse.quantum_probability
-----------------------------------------------------------------------------
\* The message the analyzer was called with, when it is a str.
IsStr == ~error_message.none
Message == error_message.s
Analyzed == severity # "unset"

HasSevereKeyword(message) ==
    LET kws == SeverityKeywords[1].kws
    IN  \E i \in 1..Len(kws) : StrContains(StrLower(message), kws[i])

MatchesPatternOf(tier, message) ==
    \E t \in 1..Len(SeverityPatterns) :
        /\ SeverityPatterns[t].sev = tier
        /\ \E i \in 1..Len(SeverityPatterns[t].pats) :
                ReSearch(SeverityPatterns[t].pats[i], StrLower(message))

WhitespaceOnly(message) ==
    Len(message) > 0 /\ \A i \in 1..Len(message) : IsSpaceChar(CharAt(message, i))

\* C5 as claimed: every non-empty message with at least three '!' anywhere
\* and at least one severe keyword is classified severe.
C5_ThreeBangsAnywhere ==
    (Analyzed /\ IsStr /\ Message # ""
        /\ StrCount(Message, "!") >= 3 /\ HasSevereKeyword(Message))
    => severity = "severe"

\* C5 as amended: every non-empty message with at least three adjacent '!'
\* (the substring "!!!") and at least one severe keyword is classified severe.
C5_ThreeBangsAdjacent ==
    (Analyzed /\ IsStr /\ Message # ""
        /\ StrContains(Message, "!!!") /\ HasSevereKeyword(Message))
    => severity = "severe"

\* C5 witness: "!!!" behind a severe keyword that is no severe pattern.
C5_Witness ==
    /\ Analyzed /\ IsStr
    /\ StrContains(Message, "!!!") /\ HasSevereKeyword(Message)
    /\ ~StrContains(StrLower(Message), "fatal")
    /\ severity = "severe"

\* C6: analyze returns mild, and does not raise, for None, for the empty
\* string and for every message made of whitespace only.
C6_EmptyIsMild ==
    (Analyzed /\ (~IsStr \/ Message = "" \/ WhitespaceOnly(Message)))
    => severity = "mild"

\* C6 witness: analyze has answered a message of several whitespace characters.
C6_Witness ==
    /\ Analyzed /\ IsStr /\ WhitespaceOnly(Message) /\ Len(Message) >= 2
    /\ StrContains(Message, "\t")
    /\ severity = "mild"

\* C7 as claimed: for every argument analyze accepts, None and "" included,
\* get_severity_details returns a record whose severity is what analyze
\* gives for the argument, and the analyzer's tables and weights stay as
\* they were.
C7_DetailsNeverRaise ==
    details.status # "unset" =>
        /\ details.status = "returned"
        /\ details.severity = Analyze(analyzer, error_message)
        /\ analyzer = NewSeverityAnalyzer

\* C8: a message that matches a severe pattern is classified severe,
\* whatever else it holds.
C8_SeverePatternIsSevere ==
    (Analyzed /\ IsStr /\ MatchesPatternOf("severe", Message))
    => severity = "severe"

\* C8 witness: a message with a severe pattern that is no keyword, next to a
\* mild pattern, was classified severe.
C8_Witness ==
    /\ Analyzed /\ IsStr
    /\ StrContains(Message, "coredump")
    /\ MatchesPatternOf("mild", Message)
    /\ ~HasSevereKeyword(Message)
    /\ severity = "severe"
\* How many of the bonus words the text holds, whatever the case.
BonusCount(text) ==
    Cardinality({i \in 1..Len(BonusWords) :
                    StrContains(StrLower(text), StrLower(BonusWords[i]))})

Scored == quality_score # -1

\* C9: the quality score of every text and every non-negative seed is an
\* integer in 1..100.
C9_ScoreInRange == Scored => quality_score \in 1..100

\* C9 witness: both ends of the range are returned: 100 by the cap on a
\* bonus, 1 by the lower clamp on a text without bonus.
C9_Witness ==
    /\ Scored
    /\ \/ quality_score = 100 /\ BonusCount(excuse_text) >= 1
       \/ quality_score = 1 /\ BonusCount(excuse_text) = 0 /\ excuse_text # "" /\ quantum_seed > 0

\* C10 as claimed: the score is min(100, clamp(1, 100, base) + 5k) for
\* base = (len(text) * seed) mod 100 and k bonus words in the text: the
\* base is clamped first and the bonuses are added behind.
C10_ClampThenBonus ==
    Scored =>
        quality_score = Min(100, Max(1, Min(100, (Len(excuse_text) * quantum_seed) % 100))
                         + 5 * BonusCount(excuse_text))

-----------------------------------------------------------------------------
(***************************************************************************)
(* Claims C13, C14: the categories of a returned Excuse                    *)
(***************************************************************************)
\* The finished generate calls that returned an Excuse.
ReturnedExcuses == {i \in 1..Len(returned) : returned[i].raised = ""}

\* The call was given a category hint that is a key of the corpus.
HintInCorpus(r) == Truthy(r.category) /\ HasKey(data, r.category.s)

\* C13 as claimed: whenever the hint is a key of the loaded corpus, the
\* returned Excuse has that category; no re-roll replaces it.
C13_HintIsCategory ==
    \A i \in ReturnedExcuses :
        HintInCorpus(returned[i]) => returned[i].excuse.category = returned[i].category.s

\* C13 as amended: whenever the hint is a key of the corpus other than the
\* three reserved names, the returned Excuse has that category.
C13_NonReservedHintIsCategory ==
    \A i \in ReturnedExcuses :
        ( /\ HintInCorpus(returned[i])
          /\ returned[i].category.s \notin ReservedCategories )
        => returned[i].excuse.category = returned[i].category.s

\* C13 witness: two calls with the hint "cosmic" on a corpus that has it have
\* returned an Excuse of that category, from different seeds.
C13_Witness ==
    \E i, j \in ReturnedExcuses :
        /\ i # j
        /\ returned[i].category = Str("cosmic") /\ returned[j].category = Str("cosmic")
        /\ HasKey(data, "cosmic")
        /\ returned[i].quantum_seed # returned[j].quantum_seed
        /\ returned[i].excuse.category = "cosmic"

NonReservedKeys == {k \in CategoryNames : HasKey(data, k)} \ ReservedCategories

\* C14: in every returned Excuse, for any hint, the primary category and
\* metadata['secondary_category'] are corpus keys outside the reserved
\* names, and they differ.
C14_CategoriesDistinctNonReserved ==
    \A i \in ReturnedExcuses :
        LET excuse == returned[i].excuse
        IN  /\ excuse.category \in NonReservedKeys
            /\ excuse.metadata.secondary_category \in NonReservedKeys
            /\ excuse.category # excuse.metadata.secondary_category

\* C14 witness: an Excuse returned for a reserved hint and one returned
\* for a call without a hint.
C14_Witness ==
    \E i, j \in ReturnedExcuses :
        /\ returned[i].category = Str("connectors")
        /\ returned[j].category = None
-----------------------------------------------------------------------------
(***************************************************************************)
(* Claims C11, C12: the Markov chain                                       *)
(***************************************************************************)
\* The whitespace-separated tokens of a phrase.
TokenCount(phrase) == Len(StrSplit(phrase))

\* C11: MarkovChain.generate(length) never raises and returns at most
\* `length` whitespace-separated tokens, for every order, every requested
\* length (also one below the order) and every trained or empty table.
C11_AtMostLengthTokens ==
    generated.status # "unset" =>
        /\ generated.status = "returned"
        /\ TokenCount(generated.phrase) <= generated.length

\* What the code gives instead: it never raises, and the phrase has at most
\* max(length, order) tokens, or is the two words of the empty table.
GenerateNeverRaises == generated.status \in {"unset", "returned"}
TokensWithinLengthOrOrder ==
    generated.status = "returned" =>
        \/ TokenCount(generated.phrase) <= Max(generated.length, markov.order)
        \/ markov.chain = <<>> /\ generated.phrase = "technical difficulties"

LastOp == IF ops = <<>> THEN "" ELSE ops[Len(ops)]

\* The chain after reset is the freshly constructed chain of its order, and
\* reset on it changes nothing.
ResetGivesFreshChain ==
    /\ markov.chain = NewMarkovChain(markov.order).chain
    /\ markov.starters = NewMarkovChain(markov.order).starters
    /\ Reset(markov) = markov

\* C12 as claimed: after reset(), whatever calls preceded it, the table and
\* the starters are those of a freshly constructed chain of the same order,
\* the table is non-empty, and reset is idempotent.
C12_ResetRestoresNonEmptyDefault ==
    LastOp = "reset" => ResetGivesFreshChain /\ markov.chain # <<>>

\* C12 as amended: the same, the table being non-empty when the order is
\* below the number of words of the default corpus.
C12_ResetRestoresDefault ==
    LastOp = "reset" =>
        /\ ResetGivesFreshChain
        /\ markov.order < Len(DefaultCorpus) => markov.chain # <<>>

\* C12 witness: a chain of order 2 that has learned a corpus of its own (its
\* table has the key of that corpus), has generated, and has been reset
\* to a non-empty table.
C12_Witness ==
    /\ markov.order = 2
    /\ Len(ops) = 3 /\ ops[1] = "train" /\ ops[2] = "generate" /\ ops[3] = "reset"
    /\ generated.status = "returned"
    /\ markov.chain # <<>>
    /\ ChainIndex(markov.chain, <<"Kernel", "panic">>) = 0
-----------------------------------------------------------------------------
(***************************************************************************)
(* Claim C16: what load_all guarantees                                     *)
(***************************************************************************)
\* The value load_all gave category k is a non-empty list or mapping.
LoadedNonEmpty(k) == HasKey(loaded.data, k) /\ NonEmptyData(Get(loaded.data, k))

\* C16: load_all always returns a mapping that has 'connectors',
\* 'recommendations' and 'intensifiers' with non-empty values, also when
\* the file of the category is missing, unparsable or parses to empty data.
C16_ReservedKeysAlwaysLoaded ==
    loaded.status = "returned" => \A k \in ReservedCategories : LoadedNonEmpty(k)

\* What the code gives: a category is in the result exactly when its file
\* does not parse (the fallback data) or parses to non-empty data.
LoadedExactlyParsedOrCorrupt ==
    loaded.status = "returned" =>
        \A k \in CategoryNames :
            /\ HasKey(loaded.data, k) <=> files[k] \in {"corrupt", "phrases"}
            /\ files[k] = "corrupt" => Get(loaded.data, k) = GetFallbackData(k)

(***************************************************************************)
(* Claims about a session: SpecSession, FairFewCategories                  *)
(***************************************************************************)
FewNonReserved == Cardinality(NonReservedKeys) < 2

\* No call on a corpus with fewer than two categories of excuses returns
\* an Excuse.
FewCategoriesNeverReturnExcuse ==
    FewNonReserved => \A i \in 1..Len(returned) : returned[i].raised # ""

\* C15: when the corpus has fewer than two non-reserved categories, every
\* generate call terminates and surfaces an error to the caller: it returns
\* no Excuse and it does not re-roll the primary category forever.
C15_FewCategoriesEndInError ==
    /\ []FewCategoriesNeverReturnExcuse
    /\ (FewNonReserved /\ frames[Caller].pc \notin {"idle", "batch"})
            ~> (frames[Caller].pc \in {"idle", "batch"})

\* With exactly one non-reserved category, or with no category at all, the
\* call in progress ends (in IndexError).
OneOrNoCategoryTerminates ==
    ((Cardinality(NonReservedKeys) = 1 \/ data = <<>>) /\ Active(Caller))
        ~> (~Active(Caller) /\ returned # <<>>
             /\ returned[Len(returned)].raised = "IndexError")

\* With reserved categories only, a call never gets past the re-roll of
\* its primary category.
ReservedOnlyStaysInReroll ==
    (data # <<>> /\ NonReservedKeys = {}) =>
        /\ frames[Caller].pc \in {"idle", "seeded", "primary", "reroll", "batch"}
        /\ returned = <<>>

\* With fewer than two non-reserved categories no call gets to line 147,
\* the Markov phrase.
FewCategoriesStopBeforeMarkov ==
    FewNonReserved => frames[Caller].pc \notin {"markov", "excuse"}

\* C17: on a corpus with at least two non-reserved categories (load_all
\* keeps no empty one), generate never raises for absent or malformed
\* auxiliary data: every call that finished returned an Excuse.
C17_AuxiliaryDataNeverRaises ==
    Cardinality(NonReservedKeys) >= 2 =>
        \A i \in 1..Len(returned) : returned[i].raised = ""

\* The intensifiers of the corpus hold an empty list for some severity.
EmptySeverityList ==
    /\ HasKey(data, "intensifiers")
    /\ Get(data, "intensifiers").kind = "dict"
    /\ \E sev \in DOMAIN Get(data, "intensifiers").by_severity :
            Get(data, "intensifiers").by_severity[sev] = <<>>

\* Without an empty list of intensifiers, the calls on a corpus with two
\* categories of excuses return an Excuse: a missing auxiliary category,
\* intensifiers that are a list, and a severity that is not in them fall
\* back on the defaults.
DefaultsCoverAbsentAuxiliaryData ==
    (Cardinality(NonReservedKeys) >= 2 /\ ~EmptySeverityList) =>
        \A i \in 1..Len(returned) : returned[i].raised = ""

\* The Excuses returned since the last clear_history by the generate calls
\* with save_history=True, in call order.
SavedExcuses ==
    LET since == SubSeq(returned, cleared_at + 1, Len(returned))
        kept == SelectSeq(since, LAMBDA r : r.raised = "" /\ r.save_history)
    IN  [i \in 1..Len(kept) |-> kept[i].excuse]

\* C18: history is, in call order, exactly the Excuses returned by the
\* generate calls with save_history=True made since the last
\* clear_history; a call with save_history=False leaves it unchanged.
C18_HistoryIsSavedExcusesSinceClear == history = SavedExcuses

\* Only clear_history removes entries: any other step leaves history as it
\* is or appends one Excuse.
HistoryGrowsOrIsCleared ==
    [][ \/ history' = history
        \/ /\ Len(history') = Len(history) + 1
           /\ SubSeq(history', 1, Len(history)) = history
        \/ /\ history' = <<>>
           /\ cleared_at' = Len(returned)
           /\ returned' = returned ]_vars

\* Two calls with save_history=True returned, clear_history was called
\* between them: the Excuse of the second call is the whole history.
C18_Witness ==
    /\ Len(returned) = 2
    /\ cleared_at = 1
    /\ returned[1].raised = "" /\ returned[1].save_history
    /\ returned[2].raised = "" /\ returned[2].save_history
    /\ history = <<returned[2].excuse>>

\* A call with save_history=False returned after a saved one: the history
\* holds the first Excuse only.
UnsavedCallLeftHistory ==
    /\ Len(returned) = 2
    /\ cleared_at = 0
    /\ returned[1].raised = "" /\ returned[1].save_history
    /\ returned[2].raised = "" /\ ~returned[2].save_history
    /\ history = <<returned[1].excuse>>

\* C19: generate_batch(n) returns exactly n Excuses and, as its n
\* generations never exhaust a budget of 10*n, their texts are pairwise
\* distinct.
C19_BatchTextsDistinct ==
    \A b \in 1..Len(batches) :
        batches[b].raised = "" =>
            /\ Len(batches[b].excuses) = batches[b].count
            /\ \A i, j \in 1..Len(batches[b].excuses) :
                   i # j => batches[b].excuses[i].text # batches[b].excuses[j].text

\* generate_batch(n) returns n Excuses, one per turn of its loop.
BatchReturnsCountExcuses ==
    \A b \in 1..Len(batches) :
        batches[b].raised = "" => Len(batches[b].excuses) = batches[b].count

\* A batch of two Excuses was returned.
BatchOfTwoReturned ==
    \E b \in 1..Len(batches) : batches[b].raised = "" /\ batches[b].count = 2

(***************************************************************************)
(* Claim C20: what a board with storage drops                              *)
(***************************************************************************)
\* C20: when the board drops entries to respect max_size, on add_excuse and
\* on load of a stored list longer than max_size, no dropped entry has a
\* strictly higher quality_score than a retained entry.
C20_DroppedNeverAboveRetained ==
    \A i \in 1..Len(evicted), j \in 1..Len(entries) :
        evicted[i].quality_score <= entries[j].quality_score

\* The add_excuse half: after every add_excuse, what it dropped is not
\* above what it kept.
AddExcuseDropsLowest ==
    [][ Len(inserted') > Len(inserted) =>
            \A i \in 1..Len(evicted'), j \in 1..Len(entries') :
                evicted'[i].quality_score <= entries'[j].quality_score ]_vars

\* add_excuse dropped an entry and kept others.
AddExcuseDropped ==
    /\ evicted # <<>>
    /\ entries # <<>>
    /\ stored = Save(TRUE, stored, entries, max_size)
    /\ Len(entries) = max_size

(***************************************************************************)
(* Claim C22: what a board gets back from its storage                      *)
(***************************************************************************)
\* The entries a saved file holds.
StoredEntries == [i \in 1..Len(stored.entries) |-> FromDict(stored.entries[i])]

\* C22: a board that loads the storage a board with entries E and capacity
\* M saved has the entries E, in the same order, and the capacity M.
C22_LoadRestoresEntriesAndCapacity ==
    [][ \A m \in 0..MaxCapacity :
            (Open(m) /\ stored.exists /\ stored.loadable) =>
                /\ entries' = StoredEntries
                /\ max_size' = stored.max_size ]_vars

\* A board opened with the capacity of the board that saved has the
\* entries that board had, in the same order and with every field.
SameCapacityRestoresEntries ==
    [][ \A m \in 0..MaxCapacity :
            (Open(m) /\ stored.exists /\ stored.loadable /\ m = stored.max_size) =>
                entries' = StoredEntries ]_vars

\* What save() writes is the board: its entries, field by field, and its
\* max_size.
SavedFileHoldsBoard ==
    [][ Len(inserted') > Len(inserted) =>
            /\ StoredEntries' = entries'
            /\ stored'.max_size = max_size' ]_vars
-----------------------------------------------------------------------------
(***************************************************************************)
(* Claims C25, C26, C29: the transition table of the Markov chain          *)
(***************************************************************************)
\* The last call was generate on a non-empty table with a length of at
\* least the order; the chain is still the one the call ran on.
GeneratedOnTable ==
    /\ LastOp = "generate"
    /\ generated.status = "returned"
    /\ markov.chain # <<>>
    /\ generated.length >= markov.order

\* C25: for a non-empty table and length >= order, generate emits exactly
\* `length` tokens; a dead end (a current key that is no key of the table)
\* restarts from another key without reducing the number of tokens.
C25_ExactlyLengthTokens ==
    GeneratedOnTable => TokenCount(generated.phrase) = generated.length

\* What the code gives instead: between `order` and `length` tokens.
TokensBetweenOrderAndLength ==
    GeneratedOnTable =>
        /\ TokenCount(generated.phrase) >= markov.order
        /\ TokenCount(generated.phrase) <= generated.length

\* Every key of the table has a successor, and every starter is a key.
TableWellFormed(m) ==
    /\ \A i \in 1..Len(m.chain) : m.chain[i].values # <<>>
    /\ \A j \in 1..Len(m.starters) : ChainIndex(m.chain, m.starters[j]) # 0

\* C26: every key of the transition table has a non-empty successor list and
\* every starter is a key of the table, after any sequence of train,
\* add_corpus, generate and reset; generate never inserts a key.
C26_KeysHaveSuccessorsStartersAreKeys ==
    /\ TableWellFormed(markov)
    /\ \A length \in Lengths, start_word \in StartWords :
           MarkovGenerateFrom(markov, rng, length, start_word).chain = markov.chain

\* C26 witness: an order-2 chain that has learned a text of its own, whose
\* last generate ran into the dead end (flux, Capacitor) and came back one
\* token short.
C26_Witness ==
    /\ GeneratedOnTable
    /\ markov.order = 2
    /\ ChainIndex(markov.chain, <<"quantum", "flux">>) # 0
    /\ ChainIndex(markov.chain, <<"flux", "Capacitor">>) = 0
    /\ TokenCount(generated.phrase) < generated.length

\* s is a prefix of t.
IsPrefix(s, t) == Len(s) <= Len(t) /\ SubSeq(t, 1, Len(s)) = s

\* Every key of `before` is a key of `after` with its successors as a
\* prefix of the new ones, and the starters of `before` are a prefix of the
\* starters of `after`.
AppendOnly(before, after) ==
    /\ \A i \in 1..Len(before.chain) :
           LET j == ChainIndex(after.chain, before.chain[i].key)
           IN  /\ j # 0
               /\ IsPrefix(before.chain[i].values, after.chain[j].values)
    /\ IsPrefix(before.starters, after.starters)

\* C29: train is append-only.  For every existing key the successor list
\* before the call is a prefix of the list after it, no key and no starter
\* is removed, and train (or add_corpus) with fewer than order + 1 words
\* leaves the table and the starters unchanged.
C29_TrainIsAppendOnly ==
    [][ /\ \A corpus \in Corpora :
               TrainCall(corpus) =>
                   /\ AppendOnly(markov, markov')
                   /\ Len(corpus) < markov.order + 1 => markov' = markov
        /\ \A text \in CorpusTexts :
               AddCorpus(text) =>
                   /\ AppendOnly(markov, markov')
                   /\ Len(StrSplit(text)) < markov.order + 1 => markov' = markov
      ]_vars

\* C29 witness: an order-1 chain has learned 'Kernel panic Kernel trap
\* quantum': the key (panic,) of the default corpus has its old successor
\* first and the new one after it.
C29_Witness ==
    /\ LastOp = "train"
    /\ markov.order = 1
    /\ ChainIndex(markov.chain, <<"panic">>) # 0
    /\ markov.chain[ChainIndex(markov.chain, <<"panic">>)].values = <<"quantum", "Kernel">>
-----------------------------------------------------------------------------
(***************************************************************************)
(* Claim C23: export_history                                               *)
(***************************************************************************)
\* The record and the Excuse agree on the four fields.
SameFields(record, exc) ==
    /\ record.text = exc.text
    /\ record.severity = exc.severity
    /\ record.category = exc.category
    /\ record.quality_score = exc.quality_score

\* C23: export_history('json') returns one record per history entry, in
\* history order, whose text, severity, category and quality_score equal
\* those of the Excuse; it does not modify the history; and an unsupported
\* format raises at once, the history unchanged.
C23_ExportProjectsHistory ==
    [][ \A format \in Formats :
            ExportHistory(Caller, format) =>
                /\ history' = history
                /\ format = "json" =>
                       /\ exported'.status = "returned"
                       /\ Len(exported'.records) = Len(history)
                       /\ \A i \in 1..Len(history) :
                              SameFields(exported'.records[i], history[i])
                /\ format \notin {"json", "text"} => exported'.status = "ValueError"
      ]_vars

\* C23 witness: a history of two different excuses has been exported as
\* records.
C23_Witness ==
    /\ exported.status = "returned"
    /\ exported.format = "json"
    /\ Len(exported.records) = 2
    /\ Len(history) = 2
    /\ history[1].text # history[2].text
    /\ history[1].category # history[1].metadata.secondary_category
-----------------------------------------------------------------------------
(***************************************************************************)
(* Claim C24: generate_excuses of the CLI                                  *)
(***************************************************************************)
\* The generate calls made up to the end of turn k of the for loop.
RECURSIVE CallsThrough(_)
CallsThrough(k) == IF k = 0 THEN 0 ELSE CallsThrough(k - 1) + cli.calls[k]

\* The score of the generate call number n of the run.
ScoreOfCall(n) == returned[n].excuse.quality_score

\* Turn k made at most max_attempts calls, each of which returned; its
\* excuse is that of its last call, which is the first to meet the
\* threshold or else the call number max_attempts.
TurnPicksFirstOrLast(k) ==
    LET first == CallsThrough(k - 1) + 1
        last == CallsThrough(k)
    IN  /\ cli.calls[k] >= 1
        /\ cli.calls[k] <= DefaultMaxAttempts
        /\ cli.excuses[k] = returned[last].excuse
        /\ \A n \in first..(last - 1) : ScoreOfCall(n) < cli.min_score
        /\ ScoreOfCall(last) >= cli.min_score \/ cli.calls[k] = DefaultMaxAttempts

CliEndedRaised ==
    /\ cli.pc = "raised"
    /\ cli.raised = "IndexError"
    /\ Len(returned) = 1

\* An attempt below the threshold was followed by one that met it.
LaterAttemptAccepted ==
    /\ cli.pc = "returned"
    /\ cli.count = 1
    /\ Len(returned) > 1
    /\ ScoreOfCall(1) < cli.min_score
    /\ ScoreOfCall(Len(returned)) = cli.min_score
-----------------------------------------------------------------------------
(***************************************************************************)
(* Claims C27, C28: the short-circuit on mild patterns, medium patterns    *)
(***************************************************************************)
\* How many patterns of the tier the message matches.
PatternMatches(tier, message) ==
    LET pats == FlattenPatterns(SeverityPatterns)
    IN  Cardinality({i \in 1..Len(pats) :
                        /\ pats[i].sev = tier
                        /\ ReSearch(pats[i].pat, StrLower(message))})

\* Twice what the keywords, the exclamation marks and the shouted words of
\* the message score together.
HeuristicsTwice(message) ==
    2 * (ScoreKeywords(analyzer, StrLower(message)) + ScoreExclamations(message))
        + ScoreUppercaseTwice(analyzer, message)

\* Only mild patterns match, and at most two of them.
OnlyMildPatterns(message) ==
    /\ PatternMatches("severe", message) = 0
    /\ PatternMatches("medium", message) = 0
    /\ PatternMatches("mild", message) \in {1, 2}

\* C27: when only mild patterns match, and at most two of them, analyze
\* returns 'mild', also when the keyword, exclamation and shouting scores
\* would sum to 8 or more.
C27_MildPatternsWin ==
    (Analyzed /\ IsStr /\ OnlyMildPatterns(Message)) => severity = "mild"

\* C27 witness: a message with one mild pattern whose keywords alone score
\* 8 was classified mild.
C27_Witness ==
    /\ Analyzed /\ IsStr
    /\ OnlyMildPatterns(Message)
    /\ HeuristicsTwice(Message) >= 2 * 8
    /\ severity = "mild"

\* C28: every message that matches a medium pattern and no severe pattern
\* is classified medium or severe, never mild.
C28_MediumPatternNeverMild ==
    (/\ Analyzed /\ IsStr
     /\ PatternMatches("medium", Message) > 0
     /\ PatternMatches("severe", Message) = 0)
    => severity \in {"medium", "severe"}

\* What the code gives instead: such a message is classified by its total
\* score, which is 3 for each medium pattern; it is mild when the total
\* stays below 4.
MediumPatternMildBelowFour ==
    (/\ Analyzed /\ IsStr
     /\ PatternMatches("medium", Message) > 0
     /\ PatternMatches("severe", Message) = 0)
    => (severity = "mild" <=>
            2 * (3 * PatternMatches("medium", Message) + PatternMatches("mild", Message))
                + HeuristicsTwice(Message) < 2 * 4)
-----------------------------------------------------------------------------
(***************************************************************************)
(* Claim C30: the rate limiter                                             *)
(***************************************************************************)
\* How many recorded calls lie strictly within the last period at `time`.
CallsWithin(l, time) ==
    Cardinality({i \in 1..Len(l.calls) : time - l.calls[i] < l.period})

\* The timestamps of s, as a bag.
Occurrences(s, t) == Cardinality({i \in 1..Len(s) : s[i] = t})

==============================================================================
